---------------------------- MODULE Spec2Model ----------------------------
(***************************************************************************)
(* JobMate backend: the application state machine of the tracker service   *)
(* (kanban.Service, transitions.go), the gateway's triage resolvers that   *)
(* write the same tables, and the discovery pipeline (scheduler, worker,   *)
(* red-flag filter, dedup insert).                                         *)
(*                                                                         *)
(* PostgreSQL tables are modelled as sequences of rows; a row's id is its  *)
(* index.  NOW() is a logical clock that advances with every write to the  *)
(* applications table.  Columns no operation of the model reads or writes  *)
(* after the insert (created_at, expires_at, ai_analysis, the cover letter)*)
(* are left out of the rows.                                               *)
(***************************************************************************)
EXTENDS Integers, Sequences, FiniteSets, TLC

VARIABLES
    applications,    \* table applications: sequence of rows
    job_feed,        \* table job_feed: sequence of rows
    search_configs,  \* table search_configs: sequence of rows
    now,             \* logical clock behind NOW() / time.Now()
    events,          \* EVENT_CARD_MOVED messages published on Redis, in order
    commands,        \* CMD_ANALYZE_JOB messages published on Redis (as a set)
    calls,           \* in-flight tracker/gateway requests, one per connection
    fetcher,         \* the AdzunaFetcher's credentials (AppID, AppKey)
    workers,         \* discovery cycles (Scheduler.runScrape), one per goroutine
    attempts,        \* log of the (config, title, location) pairs handed to Fetch
    ingests,         \* log of the executed dedup INSERT statements
    probe            \* input/output of the pure functions under test

vars == <<applications, job_feed, search_configs, now, events, commands, calls,
          fetcher, workers, attempts, ingests, probe>>

-----------------------------------------------------------------------------
(* Bounds of the model *)

MaxClock == 4        \* writes after which no further write is started
MaxApps == 2         \* rows the applications table may hold

-----------------------------------------------------------------------------
(* transitions.go *)

StatusToApply == "TO_APPLY"
StatusApplied == "APPLIED"
StatusInterview == "INTERVIEW"
StatusOffer == "OFFER"
StatusHired == "HIRED"
StatusRejected == "REJECTED"

Statuses == {StatusToApply, StatusApplied, StatusInterview, StatusOffer,
             StatusHired, StatusRejected}

\* variant: the table lets a REJECTED card be reopened at TO_APPLY
validTransitions_Reopen ==
    (StatusToApply :> <<StatusApplied, StatusRejected>>)
 @@ (StatusApplied :> <<StatusInterview, StatusRejected>>)
 @@ (StatusInterview :> <<StatusOffer, StatusRejected>>)
 @@ (StatusOffer :> <<StatusHired, StatusRejected>>)
 @@ (StatusRejected :> <<StatusToApply>>)

\* variant: the table lets a card go back from APPLIED to TO_APPLY
validTransitions_Back ==
    (StatusToApply :> <<StatusApplied, StatusRejected>>)
 @@ (StatusApplied :> <<StatusInterview, StatusRejected, StatusToApply>>)
 @@ (StatusInterview :> <<StatusOffer, StatusRejected>>)
 @@ (StatusOffer :> <<StatusHired, StatusRejected>>)

validTransitions ==
    (StatusToApply :> <<StatusApplied, StatusRejected>>)
 @@ (StatusApplied :> <<StatusInterview, StatusRejected>>)
 @@ (StatusInterview :> <<StatusOffer, StatusRejected>>)
 @@ (StatusOffer :> <<StatusHired, StatusRejected>>)

\* variant: the raw string is upper-cased before the match
ParseStatus_CaseInsensitive(s) ==
    IF s \in {StatusToApply, StatusApplied, StatusInterview, StatusOffer,
              StatusHired, StatusRejected}
    THEN [st |-> s, err |-> FALSE]
    ELSE IF s = "hired" THEN [st |-> StatusHired, err |-> FALSE]
    ELSE [st |-> "", err |-> TRUE]

\* ParseStatus: exact match of the raw string against the six tokens.
ParseStatus(s) ==
    IF s \in {StatusToApply, StatusApplied, StatusInterview, StatusOffer,
              StatusHired, StatusRejected}
    THEN [st |-> s, err |-> FALSE]
    ELSE [st |-> "", err |-> TRUE]

\* variant: the map lookup is skipped for terminal states and every target
\* out of a status missing from the table is let through
IsTransitionAllowed_NoTerminalCheck(from, to) ==
    IF from \notin DOMAIN validTransitions
    THEN TRUE
    ELSE \E i \in 1..Len(validTransitions[from]) : validTransitions[from][i] = to

IsTransitionAllowed(from, to) ==
    IF from \notin DOMAIN validTransitions
    THEN FALSE
    ELSE \E i \in 1..Len(validTransitions[from]) : validTransitions[from][i] = to

IsHired(s) == s = StatusHired


-----------------------------------------------------------------------------
(* Tables (init.sql) and request inputs *)

Users == {"u1", "u2"}
Procs == {"p1", "p2"}

\* A nullable column holds NULL or <<value>>.
NULL == <<>>
Some(v) == <<v>>

\* Raw newStatus strings a client sends: the six tokens and one lowercase one.
RawStatuses == Statuses \cup {"hired"}
Notes == {"n1", "n2"}
Ratings == {0, 1, 5, 6}
RemindAts == {"t1", "not-a-timestamp"}
ValidTimestamps == {"t1"}

RatingMin == 1
RatingMax == 5

\* applications row: DEFAULT values of CREATE TABLE applications
NewApplication(user, feed, status) ==
    [user_id |-> user, job_feed_id |-> feed, current_status |-> status,
     user_notes |-> NULL, user_rating |-> NULL, relance_reminder_at |-> NULL,
     history_log |-> <<>>, updated_at |-> now + 1]

AppIds == 1..Len(applications)
FeedIds == 1..Len(job_feed)
ConfigIds == 1..Len(search_configs)

\* variant: the UNIQUE (user_id, job_feed_id) index is missing
Conflicting_NoIndex(user, feed) == {}

\* Rows that conflict with (user, feed) under UNIQUE (user_id, job_feed_id).
\* PostgreSQL treats NULLs as distinct: a NULL job_feed_id never conflicts.
Conflicting(user, feed) ==
    {a \in AppIds : /\ feed # NULL
                    /\ applications[a].user_id = user
                    /\ applications[a].job_feed_id = feed}

\* job_feed_id UUID REFERENCES job_feed(id): NULL or an existing row
ForeignKeyOk(feed) == feed = NULL \/ feed[1] \in FeedIds

\* The feed ids a client may send: existing rows, one unknown id, or none.
FeedArgs == {NULL} \cup {Some(f) : f \in 1..(Len(job_feed) + 1)}

\* variant: the row is selected by its id alone
Owned_AnyUser(a, user) == a \in AppIds

\* WHERE id = $1 AND user_id = $2
Owned(a, user) == a \in AppIds /\ applications[a].user_id = user

-----------------------------------------------------------------------------
(* Requests: one record per in-flight call *)

\* No pure function has been called yet.
NoProbe == [fn |-> "none", from |-> "", to |-> "", out |-> FALSE]

Idle == [op |-> "idle", pc |-> "idle", user |-> "", app |-> 0, feed |-> NULL,
         cur |-> "", new |-> "", res |-> "", ret |-> 0, dbErr |-> FALSE,
         warned |-> {}]

Begin(op, pc, user, app, feed) ==
    [Idle EXCEPT !.op = op, !.pc = pc, !.user = user, !.app = app, !.feed = feed]

Done(c, res, ret) == [c EXCEPT !.pc = "done", !.res = res, !.ret = ret]

\* The call ends on the error `res` its handler makes of a failed statement.
Failed(c, res) == [c EXCEPT !.pc = "done", !.res = res, !.ret = 0, !.dbErr = TRUE]

\* A finished call hands its response to the caller before any other statement
\* is scheduled: the response is local to its handler.
Quiet == \A q \in Procs : calls[q].pc # "done"

CanStart(p) == calls[p].pc = "idle" /\ now < MaxClock /\ Quiet

DiscoveryUnchanged == UNCHANGED <<fetcher, workers, attempts, ingests, probe>>

\* The caller has its answer; the connection is free again.
Return(p) ==
    /\ calls[p].pc = "done"
    /\ calls' = [calls EXCEPT ![p] = Idle]
    /\ UNCHANGED <<applications, job_feed, search_configs, now, events, commands>>
    /\ DiscoveryUnchanged

-----------------------------------------------------------------------------
(* kanban.Service.MoveCard *)

\* variant: the event is published before the request is validated
MoveCardSelect_EventFirst(p, user, app, raw, fail) ==
    /\ CanStart(p)
    /\ LET parsed == ParseStatus(raw)
           c == [Begin("MoveCard", "update", user, app, NULL) EXCEPT !.new = parsed.st]
       IN  calls' = [calls EXCEPT ![p] =
             IF parsed.err THEN Done(c, "ValidationError", 0)
             ELSE IF fail THEN Failed(c, "NotFound")
             ELSE IF ~Owned(app, user) THEN Done(c, "NotFound", 0)
             ELSE IF ~IsTransitionAllowed(
                        ParseStatus(applications[app].current_status).st, parsed.st)
                  THEN Done([c EXCEPT
                               !.cur = ParseStatus(applications[app].current_status).st],
                            "ValidationError", 0)
             ELSE [c EXCEPT !.cur = ParseStatus(applications[app].current_status).st]]
    /\ events' = Append(events, [type |-> "EVENT_CARD_MOVED", applicationId |-> app,
                                 userId |-> user, from |-> "", to |-> raw])
    /\ UNCHANGED <<applications, job_feed, search_configs, now, commands>>
    /\ DiscoveryUnchanged

\* ParseStatus, then SELECT current_status ... WHERE id AND user_id, then the
\* transition check.  `fail` is a storage error on the SELECT.
MoveCardSelect(p, user, app, raw, fail) ==
    /\ CanStart(p)
    /\ LET parsed == ParseStatus(raw)
           c == [Begin("MoveCard", "update", user, app, NULL) EXCEPT !.new = parsed.st]
       IN  calls' = [calls EXCEPT ![p] =
             IF parsed.err THEN Done(c, "ValidationError", 0)
             ELSE IF fail THEN Failed(c, "NotFound")
             ELSE IF ~Owned(app, user) THEN Done(c, "NotFound", 0)
             ELSE IF ~IsTransitionAllowed(
                        ParseStatus(applications[app].current_status).st, parsed.st)
                  THEN Done([c EXCEPT
                               !.cur = ParseStatus(applications[app].current_status).st],
                            "ValidationError", 0)
             ELSE [c EXCEPT !.cur = ParseStatus(applications[app].current_status).st]]
    /\ UNCHANGED <<applications, job_feed, search_configs, now, events, commands>>
    /\ DiscoveryUnchanged

\* variant: the record names the target as its origin
HistoryEntry_TargetOnly(from, to, at) == [from |-> to, to |-> to, at |-> at]

\* entry := {"from": currentRaw, "to": newStatus, "at": time.Now()}
HistoryEntry(from, to, at) == [from |-> from, to |-> to, at |-> at]

\* variant: the UPDATE stores the new record in place of the log
MoveCardUpdate_Overwrite(p, fail) ==
    /\ Quiet /\ calls[p].op = "MoveCard" /\ calls[p].pc = "update"
    /\ LET c == calls[p]
           entry == HistoryEntry(c.cur, c.new, now)
       IN  IF fail \/ ~Owned(c.app, c.user)
           THEN /\ calls' = [calls EXCEPT ![p] = Failed(c, "Internal")]
                /\ UNCHANGED <<applications, now>>
           ELSE /\ applications' = [applications EXCEPT ![c.app] =
                       [@ EXCEPT !.current_status = c.new,
                                 !.history_log = <<entry>>,
                                 !.updated_at = now + 1]]
                /\ now' = now + 1
                /\ calls' = [calls EXCEPT ![p] =
                       [c EXCEPT !.pc = IF IsHired(c.new) THEN "archive" ELSE "publish",
                                 !.ret = c.app]]
    /\ UNCHANGED <<job_feed, search_configs, events, commands>>
    /\ DiscoveryUnchanged

\* UPDATE applications SET current_status, history_log || entry, updated_at
\* WHERE id AND user_id RETURNING *
MoveCardUpdate(p, fail) ==
    /\ Quiet /\ calls[p].op = "MoveCard" /\ calls[p].pc = "update"
    /\ LET c == calls[p]
           entry == HistoryEntry(c.cur, c.new, now)
       IN  IF fail \/ ~Owned(c.app, c.user)
           THEN /\ calls' = [calls EXCEPT ![p] = Failed(c, "Internal")]
                /\ UNCHANGED <<applications, now>>
           ELSE /\ applications' = [applications EXCEPT ![c.app] =
                       [@ EXCEPT !.current_status = c.new,
                                 !.history_log = Append(@, entry),
                                 !.updated_at = now + 1]]
                /\ now' = now + 1
                /\ calls' = [calls EXCEPT ![p] =
                       [c EXCEPT !.pc = IF IsHired(c.new) THEN "archive" ELSE "publish",
                                 !.ret = c.app]]
    /\ UNCHANGED <<job_feed, search_configs, events, commands>>
    /\ DiscoveryUnchanged

\* variant: the join selects no row
ArchiveTargets_None(app) == {}

\* The search_configs rows archiveSearchConfig's UPDATE ... FROM join selects.
ArchiveTargets(app) ==
    {sc \in ConfigIds :
        /\ app \in AppIds
        /\ applications[app].job_feed_id # NULL
        /\ applications[app].job_feed_id[1] \in FeedIds
        /\ job_feed[applications[app].job_feed_id[1]].search_config_id = sc}

\* variant: a failed archival is returned as the call's error
archiveSearchConfig_Fatal(p, fail) ==
    /\ Quiet /\ calls[p].op = "MoveCard" /\ calls[p].pc = "archive"
    /\ IF fail \/ ArchiveTargets(calls[p].app) = {}
       THEN UNCHANGED <<search_configs, now>>
       ELSE /\ search_configs' =
                  [search_configs EXCEPT
                     ![CHOOSE sc \in ArchiveTargets(calls[p].app) : TRUE].is_active = FALSE]
            /\ UNCHANGED now
    /\ calls' = [calls EXCEPT ![p] =
          IF fail THEN Failed(@, "Internal") ELSE [@ EXCEPT !.pc = "publish"]]
    /\ UNCHANGED <<applications, job_feed, events, commands>>
    /\ DiscoveryUnchanged

\* archiveSearchConfig: a failure is logged (slog.Warn), never returned.
archiveSearchConfig(p, fail) ==
    /\ Quiet /\ calls[p].op = "MoveCard" /\ calls[p].pc = "archive"
    /\ IF fail \/ ArchiveTargets(calls[p].app) = {}
       THEN UNCHANGED <<search_configs, now>>
       ELSE /\ search_configs' =
                  [search_configs EXCEPT
                     ![CHOOSE sc \in ArchiveTargets(calls[p].app) : TRUE].is_active = FALSE]
            /\ UNCHANGED now
    /\ calls' = [calls EXCEPT ![p] =
          [@ EXCEPT !.pc = "publish",
                    !.warned = IF fail THEN @ \cup {"archive"} ELSE @]]
    /\ UNCHANGED <<applications, job_feed, events, commands>>
    /\ DiscoveryUnchanged

\* variant: the event is published a second time
MoveCardPublish_Twice(p, fail) ==
    /\ Quiet /\ calls[p].op = "MoveCard" /\ calls[p].pc = "publish"
    /\ events' = IF fail THEN events
                 ELSE events \o
                      << [type |-> "EVENT_CARD_MOVED", applicationId |-> calls[p].app,
                          userId |-> calls[p].user,
                          from |-> calls[p].cur, to |-> calls[p].new],
                         [type |-> "EVENT_CARD_MOVED", applicationId |-> calls[p].app,
                          userId |-> calls[p].user,
                          from |-> calls[p].cur, to |-> calls[p].new] >>
    /\ calls' = [calls EXCEPT ![p] =
          Done([calls[p] EXCEPT !.warned = IF fail THEN @ \cup {"publish"} ELSE @],
               "ok", calls[p].ret)]
    /\ UNCHANGED <<applications, job_feed, search_configs, now, commands>>
    /\ DiscoveryUnchanged

\* rdb.Publish("EVENT_CARD_MOVED", ...): a failure is logged (slog.Warn),
\* never returned.
MoveCardPublish(p, fail) ==
    /\ Quiet /\ calls[p].op = "MoveCard" /\ calls[p].pc = "publish"
    /\ events' = IF fail THEN events
                 ELSE Append(events, [type |-> "EVENT_CARD_MOVED",
                                      applicationId |-> calls[p].app,
                                      userId |-> calls[p].user,
                                      from |-> calls[p].cur, to |-> calls[p].new])
    /\ calls' = [calls EXCEPT ![p] =
          Done([calls[p] EXCEPT !.warned = IF fail THEN @ \cup {"publish"} ELSE @],
               "ok", calls[p].ret)]
    /\ UNCHANGED <<applications, job_feed, search_configs, now, commands>>
    /\ DiscoveryUnchanged


-----------------------------------------------------------------------------
(* kanban.Service.AddNote / RateApplication / SetRelanceReminder: one UPDATE  *)
(* ... WHERE id AND user_id RETURNING *; any Scan error is ErrNotFound.       *)

\* variant: the note of a card in a terminal status is not replaced
AddNote_FrozenWhenTerminal(p, user, app, note, fail) ==
    /\ CanStart(p)
    /\ LET c == Begin("AddNote", "done", user, app, NULL)
       IN  IF fail \/ ~Owned(app, user)
              \/ applications[app].current_status \in {StatusHired, StatusRejected}
           THEN /\ calls' = [calls EXCEPT ![p] =
                       IF fail THEN Failed(c, "NotFound") ELSE Done(c, "NotFound", 0)]
                /\ UNCHANGED <<applications, now>>
           ELSE /\ applications' = [applications EXCEPT ![app] =
                       [@ EXCEPT !.user_notes = Some(note), !.updated_at = now + 1]]
                /\ now' = now + 1
                /\ calls' = [calls EXCEPT ![p] = Done(c, "ok", app)]
    /\ UNCHANGED <<job_feed, search_configs, events, commands>>
    /\ DiscoveryUnchanged

AddNote(p, user, app, note, fail) ==
    /\ CanStart(p)
    /\ LET c == Begin("AddNote", "done", user, app, NULL)
       IN  IF fail \/ ~Owned(app, user)
           THEN /\ calls' = [calls EXCEPT ![p] =
                       IF fail THEN Failed(c, "NotFound") ELSE Done(c, "NotFound", 0)]
                /\ UNCHANGED <<applications, now>>
           ELSE /\ applications' = [applications EXCEPT ![app] =
                       [@ EXCEPT !.user_notes = Some(note), !.updated_at = now + 1]]
                /\ now' = now + 1
                /\ calls' = [calls EXCEPT ![p] = Done(c, "ok", app)]
    /\ UNCHANGED <<job_feed, search_configs, events, commands>>
    /\ DiscoveryUnchanged

\* variant: the rating goes to the UPDATE statement unchecked
RateApplication_NoRangeCheck(p, user, app, rating, fail) ==
    /\ CanStart(p)
    /\ LET c == Begin("RateApplication", "done", user, app, NULL)
       IN  IF fail \/ ~Owned(app, user)
           THEN /\ calls' = [calls EXCEPT ![p] =
                       IF fail THEN Failed(c, "NotFound") ELSE Done(c, "NotFound", 0)]
                /\ UNCHANGED <<applications, now>>
           ELSE /\ applications' = [applications EXCEPT ![app] =
                       [@ EXCEPT !.user_rating = Some(rating), !.updated_at = now + 1]]
                /\ now' = now + 1
                /\ calls' = [calls EXCEPT ![p] = Done(c, "ok", app)]
    /\ UNCHANGED <<job_feed, search_configs, events, commands>>
    /\ DiscoveryUnchanged

RateApplication(p, user, app, rating, fail) ==
    /\ CanStart(p)
    /\ LET c == Begin("RateApplication", "done", user, app, NULL)
       IN  IF rating < RatingMin \/ rating > RatingMax
           THEN /\ calls' = [calls EXCEPT ![p] = Done(c, "ValidationError", 0)]
                /\ UNCHANGED <<applications, now>>
           ELSE IF fail \/ ~Owned(app, user)
           THEN /\ calls' = [calls EXCEPT ![p] =
                       IF fail THEN Failed(c, "NotFound") ELSE Done(c, "NotFound", 0)]
                /\ UNCHANGED <<applications, now>>
           ELSE /\ applications' = [applications EXCEPT ![app] =
                       [@ EXCEPT !.user_rating = Some(rating), !.updated_at = now + 1]]
                /\ now' = now + 1
                /\ calls' = [calls EXCEPT ![p] = Done(c, "ok", app)]
    /\ UNCHANGED <<job_feed, search_configs, events, commands>>
    /\ DiscoveryUnchanged

\* $1::timestamptz fails on a malformed remindAt: the statement errors.
SetRelanceReminder(p, user, app, remindAt, fail) ==
    /\ CanStart(p)
    /\ LET c == Begin("SetRelanceReminder", "done", user, app, NULL)
       IN  IF fail \/ remindAt \notin ValidTimestamps \/ ~Owned(app, user)
           THEN /\ calls' = [calls EXCEPT ![p] =
                       IF fail \/ remindAt \notin ValidTimestamps
                       THEN Failed(c, "NotFound") ELSE Done(c, "NotFound", 0)]
                /\ UNCHANGED <<applications, now>>
           ELSE /\ applications' = [applications EXCEPT ![app] =
                       [@ EXCEPT !.relance_reminder_at = Some(remindAt),
                                 !.updated_at = now + 1]]
                /\ now' = now + 1
                /\ calls' = [calls EXCEPT ![p] = Done(c, "ok", app)]
    /\ UNCHANGED <<job_feed, search_configs, events, commands>>
    /\ DiscoveryUnchanged

-----------------------------------------------------------------------------
(* Creating applications *)

\* INSERT ... ON CONFLICT (user_id, job_feed_id) DO UPDATE SET updated_at = NOW()
\* RETURNING: the id of the inserted or of the touched row.  The statement of the
\* gateway's createApplication and of approveJob, both at 'TO_APPLY'.
Upsert(user, feed) ==
    IF Conflicting(user, feed) # {}
    THEN LET a == CHOOSE x \in Conflicting(user, feed) : TRUE
         IN  [apps |-> [applications EXCEPT ![a].updated_at = now + 1], id |-> a]
    ELSE [apps |-> Append(applications, NewApplication(user, feed, StatusToApply)),
          id |-> Len(applications) + 1]

\* Mutation.createApplication of the gateway (no ownership check of the feed row).
createApplication(p, user, feed, fail) ==
    /\ CanStart(p)
    /\ (Conflicting(user, feed) = {} => Len(applications) < MaxApps)
    /\ LET c == Begin("createApplication", "done", user, 0, feed)
       IN  IF fail \/ ~ForeignKeyOk(feed)
           THEN /\ calls' = [calls EXCEPT ![p] = Failed(c, "Internal")]
                /\ UNCHANGED <<applications, now>>
           ELSE /\ applications' = Upsert(user, feed).apps
                /\ now' = now + 1
                /\ calls' = [calls EXCEPT ![p] = Done(c, "ok", Upsert(user, feed).id)]
    /\ UNCHANGED <<job_feed, search_configs, events, commands>>
    /\ DiscoveryUnchanged

\* kanban.Service.CreateApplication: INSERT ... VALUES ($1, $2, 'APPLIED')
\* ON CONFLICT DO NOTHING RETURNING *, read through Scan.  On a conflict the
\* CTE is empty and Scan returns an error; an empty jobFeedID is no uuid.
CreateApplication(p, user, feed, fail) ==
    /\ CanStart(p)
    /\ (Conflicting(user, feed) = {} => Len(applications) < MaxApps)
    /\ LET c == Begin("CreateApplication", "publish", user, 0, feed)
       IN  IF fail \/ feed = NULL \/ ~ForeignKeyOk(feed) \/ Conflicting(user, feed) # {}
           THEN /\ calls' = [calls EXCEPT ![p] =
                       IF fail \/ feed = NULL \/ ~ForeignKeyOk(feed)
                       THEN Failed(c, "Internal") ELSE Done(c, "Internal", 0)]
                /\ UNCHANGED <<applications, now>>
           ELSE /\ applications' =
                       Append(applications, NewApplication(user, feed, StatusApplied))
                /\ now' = now + 1
                /\ calls' = [calls EXCEPT ![p] =
                       [c EXCEPT !.ret = Len(applications) + 1, !.app = Len(applications) + 1]]
    /\ UNCHANGED <<job_feed, search_configs, events, commands>>
    /\ DiscoveryUnchanged

\* rdb.Publish("CMD_ANALYZE_JOB", ...): a failure is logged, never returned.
CreateApplicationPublish(p, fail) ==
    /\ Quiet /\ calls[p].op = "CreateApplication" /\ calls[p].pc = "publish"
    /\ commands' = IF fail THEN commands
                   ELSE commands \cup {[type |-> "CMD_ANALYZE_JOB",
                                        applicationId |-> calls[p].app,
                                        userId |-> calls[p].user]}
    /\ calls' = [calls EXCEPT ![p] = Done(calls[p], "ok", calls[p].ret)]
    /\ UNCHANGED <<applications, job_feed, search_configs, now, events>>
    /\ DiscoveryUnchanged

-----------------------------------------------------------------------------
(* Triage: Mutation.approveJob / Mutation.rejectJob of the gateway *)

\* jf JOIN search_configs sc ... WHERE jf.id = $1 AND sc.user_id = $2
FeedOwned(feed, user) ==
    /\ feed # NULL
    /\ feed[1] \in FeedIds
    /\ search_configs[job_feed[feed[1]].search_config_id].user_id = user

\* 1. ownership SELECT and the 'already approved' check
approveJobSelect(p, user, feed, fail) ==
    /\ CanStart(p)
    /\ LET c == Begin("approveJob", "feedUpdate", user, 0, feed)
       IN  calls' = [calls EXCEPT ![p] =
             IF fail THEN Failed(c, "Internal")
             ELSE IF ~FeedOwned(feed, user) THEN Done(c, "NotFound", 0)
             ELSE IF job_feed[feed[1]].status = "APPROVED"
                  THEN Done(c, "ValidationError", 0)
             ELSE c]
    /\ UNCHANGED <<applications, job_feed, search_configs, now, events, commands>>
    /\ DiscoveryUnchanged

\* 2. UPDATE job_feed SET status = 'APPROVED' WHERE id = $1
approveJobUpdate(p, fail) ==
    /\ Quiet /\ calls[p].op = "approveJob" /\ calls[p].pc = "feedUpdate"
    /\ IF fail
       THEN /\ calls' = [calls EXCEPT ![p] = Failed(calls[p], "Internal")]
            /\ UNCHANGED job_feed
       ELSE /\ job_feed' = [job_feed EXCEPT ![calls[p].feed[1]].status = "APPROVED"]
            /\ calls' = [calls EXCEPT ![p].pc = "insert"]
    /\ UNCHANGED <<applications, search_configs, now, events, commands>>
    /\ DiscoveryUnchanged

\* 3. INSERT the application, ON CONFLICT DO UPDATE SET updated_at
approveJobInsert(p, fail) ==
    /\ Quiet
    /\ calls[p].op = "approveJob"
    /\ calls[p].pc = "insert"
    /\ (Conflicting(calls[p].user, calls[p].feed) = {} => Len(applications) < MaxApps)
    /\ IF fail
       THEN /\ calls' = [calls EXCEPT ![p] = Failed(calls[p], "Internal")]
            /\ UNCHANGED <<applications, now>>
       ELSE /\ applications' = Upsert(calls[p].user, calls[p].feed).apps
            /\ now' = now + 1
            /\ calls' = [calls EXCEPT ![p] =
                   [@ EXCEPT !.pc = "publish",
                             !.app = Upsert(calls[p].user, calls[p].feed).id,
                             !.ret = Upsert(calls[p].user, calls[p].feed).id]]
    /\ UNCHANGED <<job_feed, search_configs, events, commands>>
    /\ DiscoveryUnchanged

\* 4. publish('CMD_ANALYZE_JOB', ...) inside try/catch
approveJobPublish(p, fail) ==
    /\ Quiet /\ calls[p].op = "approveJob" /\ calls[p].pc = "publish"
    /\ commands' = IF fail THEN commands
                   ELSE commands \cup {[type |-> "CMD_ANALYZE_JOB",
                                        applicationId |-> calls[p].app,
                                        userId |-> calls[p].user]}
    /\ calls' = [calls EXCEPT ![p] = Done(calls[p], "ok", calls[p].ret)]
    /\ UNCHANGED <<applications, job_feed, search_configs, now, events>>
    /\ DiscoveryUnchanged

\* UPDATE job_feed jf SET status = 'REJECTED' FROM search_configs sc WHERE ...
rejectJob(p, user, feed, fail) ==
    /\ CanStart(p)
    /\ LET c == Begin("rejectJob", "done", user, 0, feed)
       IN  IF fail
           THEN /\ calls' = [calls EXCEPT ![p] = Failed(c, "Internal")]
                /\ UNCHANGED job_feed
           ELSE IF ~FeedOwned(feed, user)
           THEN /\ calls' = [calls EXCEPT ![p] = Done(c, "NotFound", 0)]
                /\ UNCHANGED job_feed
           ELSE /\ job_feed' = [job_feed EXCEPT ![feed[1]].status = "REJECTED"]
                /\ calls' = [calls EXCEPT ![p] = Done(c, "ok", 0)]
    /\ UNCHANGED <<applications, search_configs, now, events, commands>>
    /\ DiscoveryUnchanged


-----------------------------------------------------------------------------
(* Discovery: fetcher.go, redflag.go.  Text is a sequence of characters.     *)

adzunaPageSize == 50
adzunaMaxPages == 3

UpperCase == <<"A", "B", "C", "D", "E", "F", "G", "H", "I", "J", "K", "L", "M",
               "N", "O", "P", "Q", "R", "S", "T", "U", "V", "W", "X", "Y", "Z">>
LowerCase == <<"a", "b", "c", "d", "e", "f", "g", "h", "i", "j", "k", "l", "m",
               "n", "o", "p", "q", "r", "s", "t", "u", "v", "w", "x", "y", "z">>

\* strings.ToLower
ToLowerChar(c) ==
    IF \E i \in 1..Len(UpperCase) : UpperCase[i] = c
    THEN LowerCase[CHOOSE i \in 1..Len(UpperCase) : UpperCase[i] = c]
    ELSE c
ToLower(t) == [i \in 1..Len(t) |-> ToLowerChar(t[i])]

\* strings.Contains
Contains(hay, needle) ==
    \E i \in 0..(Len(hay) - Len(needle)) : SubSeq(hay, i + 1, i + Len(needle)) = needle

\* variant: the combined text is not lowercased before the match
ContainsRedFlag_CaseSensitive(title, company, description, redFlags) ==
    IF Len(redFlags) = 0 THEN FALSE
    ELSE LET combined == title \o <<" ">> \o company \o <<" ">> \o description
         IN  \E k \in 1..Len(redFlags) :
                redFlags[k] # <<>> /\ Contains(combined, ToLower(redFlags[k]))

ContainsRedFlag(title, company, description, redFlags) ==
    IF Len(redFlags) = 0 THEN FALSE
    ELSE LET combined == ToLower(title \o <<" ">> \o company \o <<" ">> \o description)
         IN  \E k \in 1..Len(redFlags) :
                redFlags[k] # <<>> /\ Contains(combined, ToLower(redFlags[k]))

\* Texts of the listings and the red flag of the model.
TextGoDeveloper ==
    <<"G", "o", " ", "D", "e", "v", "e", "l", "o", "p", "e", "r">>
TextGoEngineer ==
    <<"G", "o", " ", "E", "n", "g", "i", "n", "e", "e", "r">>
TextAcme == <<"A", "c", "m", "e">>
TextUnpaidInternship ==
    <<"U", "n", "p", "a", "i", "d", " ", "i", "n", "t", "e", "r", "n", "s", "h", "i", "p">>
TextBackendRole ==
    <<"B", "a", "c", "k", "e", "n", "d", " ", "r", "o", "l", "e">>
FlagUnpaid == <<"u", "n", "p", "a", "i", "d">>

\* model.JobResult values the upstream API returns in the model.
JobUnpaid ==
    [ExternalID |-> "e1", SourceURL |-> "url1", Title |-> TextGoDeveloper,
     Company |-> TextAcme, Description |-> TextUnpaidInternship]
JobNoUrl ==
    [ExternalID |-> "e2", SourceURL |-> "", Title |-> TextGoDeveloper,
     Company |-> TextAcme, Description |-> TextBackendRole]
JobSameUrl ==
    [ExternalID |-> "e3", SourceURL |-> "url1", Title |-> TextGoEngineer,
     Company |-> TextAcme, Description |-> TextBackendRole]

\* One page of the upstream API: a transport / non-200 error or a batch.
PageError == [err |-> TRUE, batch |-> <<>>]
Page(batch) == [err |-> FALSE, batch |-> batch]

\* The answers of the upstream API to one Fetch, page after page; pages
\* beyond the script are empty.
FetchScripts ==
    { <<PageError>>, <<>>, <<Page(<<JobUnpaid, JobNoUrl>>)>>, <<Page(<<JobSameUrl>>)>> }

\* fetchPage: the answer to the request for page `page`
fetchPage(script, page) ==
    IF page <= Len(script) THEN script[page] ELSE Page(<<>>)

\* The page loop of Fetch: pages 1.. until an error, an empty or short page, or
\* the page cap.  `pages` counts the requests issued.
RECURSIVE FetchLoop(_, _, _)
FetchLoop(script, page, results) ==
    IF page > adzunaMaxPages
    THEN [results |-> results, err |-> FALSE, pages |-> page - 1]
    ELSE LET r == fetchPage(script, page)
         IN  IF r.err THEN [results |-> results, err |-> TRUE, pages |-> page]
             ELSE IF Len(r.batch) = 0
                  THEN [results |-> results, err |-> FALSE, pages |-> page]
             ELSE IF Len(r.batch) < adzunaPageSize
                  THEN [results |-> results \o r.batch, err |-> FALSE, pages |-> page]
             ELSE FetchLoop(script, page + 1, results \o r.batch)

\* variant: the no-op only when both credentials are empty
Fetch_BothMissing(f, script) ==
    IF f.AppID = "" /\ f.AppKey = ""
    THEN [results |-> <<>>, err |-> FALSE, pages |-> 0]
    ELSE FetchLoop(script, 1, <<>>)

\* AdzunaFetcher.Fetch: (nil, nil) without a request when a credential is empty
Fetch(f, script) ==
    IF f.AppID = "" \/ f.AppKey = ""
    THEN [results |-> <<>>, err |-> FALSE, pages |-> 0]
    ELSE FetchLoop(script, 1, <<>>)

\* The dedup key: the posting's URL, or "adzuna:<external id>" when it has none.
\* (The raw_data payload is serialised before the key is synthesised.)
SourceKey(job) ==
    IF job.SourceURL = "" THEN "adzuna:" \o job.ExternalID ELSE job.SourceURL

-----------------------------------------------------------------------------
(* Discovery: scheduler.go (runScrape) and worker.go (Run, scrapeAndInsert)  *)

Workers == {"w1", "w2"}

Configured == [AppID |-> "app-id", AppKey |-> "app-key"]
Unconfigured == [AppID |-> "", AppKey |-> ""]
MissingId == [AppID |-> "", AppKey |-> "app-key"]
MissingKey == [AppID |-> "app-id", AppKey |-> ""]

IdleWorker ==
    [pc |-> "idle", loadErr |-> FALSE, cfgs |-> <<>>, ci |-> 0, ti |-> 0, li |-> 0,
     results |-> <<>>, ri |-> 0, seen |-> FALSE, ai |-> 0,
     inserted |-> 0, filtered |-> 0, dupes |-> 0,
     totalInserted |-> 0, totalFiltered |-> 0, totalDuplicate |-> 0]

KanbanUnchanged == UNCHANGED <<applications, now, events, commands, calls, probe>>

\* LoadActiveConfigs: SELECT ... FROM search_configs WHERE is_active = true,
\* copied into model.SearchConfig values.
RECURSIVE ActiveFrom(_)
ActiveFrom(i) ==
    IF i > Len(search_configs) THEN <<>>
    ELSE (IF search_configs[i].is_active
          THEN << [ID |-> i, UserID |-> search_configs[i].user_id,
                   JobTitles |-> search_configs[i].job_titles,
                   Locations |-> search_configs[i].locations,
                   RedFlags |-> search_configs[i].red_flags] >>
          ELSE <<>>) \o ActiveFrom(i + 1)

LoadActiveConfigs == ActiveFrom(1)

\* The first config at or after position ci whose two loops have a body to run;
\* Len(cfgs) + 1 when there is none.
RECURSIVE NextConfig(_, _)
NextConfig(cfgs, ci) ==
    IF ci > Len(cfgs) THEN ci
    ELSE IF Len(cfgs[ci].JobTitles) > 0 /\ Len(cfgs[ci].Locations) > 0 THEN ci
    ELSE NextConfig(cfgs, ci + 1)

\* Enter `for _, cfg := range configs { worker.Run(cfg) }` at config ci.
EnterConfig(wr, ci) ==
    IF NextConfig(wr.cfgs, ci) > Len(wr.cfgs)
    THEN [wr EXCEPT !.pc = "done", !.ci = 0, !.ti = 0, !.li = 0]
    ELSE [wr EXCEPT !.pc = "pair", !.ci = NextConfig(wr.cfgs, ci), !.ti = 1, !.li = 1,
                    !.totalInserted = 0, !.totalFiltered = 0, !.totalDuplicate = 0]

\* variant: Run returns at the first failing pair instead of `continue`
NextPair_AbortConfig(wr, failed) ==
    LET cfg == wr.cfgs[wr.ci]
        w0 == [wr EXCEPT !.results = <<>>, !.ri = 0, !.seen = FALSE, !.ai = 0,
                         !.inserted = 0, !.filtered = 0, !.dupes = 0]
    IN  IF failed THEN EnterConfig(w0, wr.ci + 1)
        ELSE IF wr.li < Len(cfg.Locations) THEN [w0 EXCEPT !.pc = "pair", !.li = @ + 1]
        ELSE IF wr.ti < Len(cfg.JobTitles)
             THEN [w0 EXCEPT !.pc = "pair", !.ti = @ + 1, !.li = 1]
        ELSE EnterConfig(w0, wr.ci + 1)

\* variant: a failed pair is fetched again
NextPair_RetryFailed(wr, failed) ==
    LET cfg == wr.cfgs[wr.ci]
        w0 == [wr EXCEPT !.results = <<>>, !.ri = 0, !.seen = FALSE, !.ai = 0,
                         !.inserted = 0, !.filtered = 0, !.dupes = 0]
    IN  IF failed THEN [w0 EXCEPT !.pc = "pair"]
        ELSE IF wr.li < Len(cfg.Locations) THEN [w0 EXCEPT !.pc = "pair", !.li = @ + 1]
        ELSE IF wr.ti < Len(cfg.JobTitles)
             THEN [w0 EXCEPT !.pc = "pair", !.ti = @ + 1, !.li = 1]
        ELSE EnterConfig(w0, wr.ci + 1)

\* The loops of Worker.Run after one (title, location) pair: the next location,
\* else the next title, else the next config.  `failed` is scrapeAndInsert's error;
\* the loop goes on either way.
NextPair(wr, failed) ==
    LET cfg == wr.cfgs[wr.ci]
        w0 == [wr EXCEPT !.results = <<>>, !.ri = 0, !.seen = FALSE, !.ai = 0,
                         !.inserted = 0, !.filtered = 0, !.dupes = 0]
    IN  IF wr.li < Len(cfg.Locations) THEN [w0 EXCEPT !.pc = "pair", !.li = @ + 1]
        ELSE IF wr.ti < Len(cfg.JobTitles)
             THEN [w0 EXCEPT !.pc = "pair", !.ti = @ + 1, !.li = 1]
        ELSE EnterConfig(w0, wr.ci + 1)

\* Scheduler.runScrape: load the active configs, `fail` being the query's error.
runScrape(w, fail) ==
    /\ workers[w].pc = "idle"
    /\ workers' = [workers EXCEPT ![w] =
          IF fail THEN [@ EXCEPT !.pc = "done", !.loadErr = TRUE]
          ELSE EnterConfig([@ EXCEPT !.cfgs = LoadActiveConfigs], 1)]
    /\ UNCHANGED <<job_feed, search_configs, fetcher, attempts, ingests>>
    /\ KanbanUnchanged

\* variant: the listings fetched before the failing page are processed
FetchPair_KeepPartial(w, script) ==
    /\ workers[w].pc = "pair"
    /\ LET wr == workers[w]
           cfg == wr.cfgs[wr.ci]
           r == Fetch(fetcher, script)
           entry == [worker |-> w, config |-> cfg.ID, ti |-> wr.ti, li |-> wr.li,
                     title |-> cfg.JobTitles[wr.ti], location |-> cfg.Locations[wr.li],
                     pages |-> r.pages, err |-> r.err,
                     fetched |-> IF r.err THEN 0 ELSE Len(r.results),
                     returned |-> Len(r.results) = 0,
                     inserted |-> 0, filtered |-> 0, dupes |-> 0]
       IN  /\ attempts' = Append(attempts, entry)
           /\ workers' = [workers EXCEPT ![w] =
                 IF Len(r.results) = 0 THEN NextPair(wr, r.err)
                 ELSE [wr EXCEPT !.pc = "process", !.results = r.results, !.ri = 1,
                                 !.ai = Len(attempts) + 1]]
    /\ UNCHANGED <<job_feed, search_configs, fetcher, ingests>>
    /\ KanbanUnchanged

\* scrapeAndInsert, first part: w.fetcher.Fetch(ctx, title, location).
\* `script` is what the upstream API answers.
FetchPair(w, script) ==
    /\ workers[w].pc = "pair"
    /\ LET wr == workers[w]
           cfg == wr.cfgs[wr.ci]
           r == Fetch(fetcher, script)
           entry == [worker |-> w, config |-> cfg.ID, ti |-> wr.ti, li |-> wr.li,
                     title |-> cfg.JobTitles[wr.ti], location |-> cfg.Locations[wr.li],
                     pages |-> r.pages, err |-> r.err,
                     fetched |-> IF r.err THEN 0 ELSE Len(r.results),
                     returned |-> r.err \/ Len(r.results) = 0,
                     inserted |-> 0, filtered |-> 0, dupes |-> 0]
       IN  /\ attempts' = Append(attempts, entry)
           /\ workers' = [workers EXCEPT ![w] =
                 IF r.err THEN NextPair(wr, TRUE)
                 ELSE IF Len(r.results) = 0 THEN NextPair(wr, FALSE)
                 ELSE [wr EXCEPT !.pc = "process", !.results = r.results, !.ri = 1,
                                 !.ai = Len(attempts) + 1]]
    /\ UNCHANGED <<job_feed, search_configs, fetcher, ingests>>
    /\ KanbanUnchanged

\* The listing loop after one listing: the next listing, or the return of
\* scrapeAndInsert with its three counters, which Run adds to its totals.
AfterListing(wr) ==
    IF wr.ri < Len(wr.results)
    THEN [wr EXCEPT !.pc = "process", !.ri = @ + 1, !.seen = FALSE]
    ELSE NextPair([wr EXCEPT !.totalInserted = @ + wr.inserted,
                             !.totalFiltered = @ + wr.filtered,
                             !.totalDuplicate = @ + wr.dupes], FALSE)

\* The attempts log once the worker's record became wr.
Returned(wr, log) ==
    IF wr.ri < Len(wr.results) THEN log
    ELSE [log EXCEPT ![wr.ai] = [@ EXCEPT !.returned = TRUE,
                                          !.inserted = wr.inserted,
                                          !.filtered = wr.filtered,
                                          !.dupes = wr.dupes]]

\* variant: the statement inserts unconditionally
SourceUrlExists_Never(key) == FALSE

\* WHERE NOT EXISTS (SELECT 1 FROM job_feed WHERE source_url = $3)
SourceUrlExists(key) == \E f \in FeedIds : job_feed[f].source_url = key

\* variant: the listing goes to the INSERT statement without the filter
ProcessListing_NoFilter(w) ==
    /\ workers[w].pc = "process"
    /\ LET wr == workers[w]
           job == wr.results[wr.ri]
       IN  /\ workers' = [workers EXCEPT ![w] =
                  [wr EXCEPT !.pc = "insert", !.seen = SourceUrlExists(SourceKey(job))]]
           /\ UNCHANGED attempts
    /\ UNCHANGED <<job_feed, search_configs, fetcher, ingests>>
    /\ KanbanUnchanged

\* One listing: the red-flag filter, then the INSERT ... WHERE NOT EXISTS
\* statement is sent and reads the table (`seen`).
ProcessListing(w) ==
    /\ workers[w].pc = "process"
    /\ LET wr == workers[w]
           cfg == wr.cfgs[wr.ci]
           job == wr.results[wr.ri]
       IN  IF ContainsRedFlag(job.Title, job.Company, job.Description, cfg.RedFlags)
           THEN /\ workers' = [workers EXCEPT ![w] =
                       AfterListing([wr EXCEPT !.filtered = @ + 1])]
                /\ attempts' = Returned([wr EXCEPT !.filtered = @ + 1], attempts)
           ELSE /\ workers' = [workers EXCEPT ![w] =
                       [wr EXCEPT !.pc = "insert",
                                  !.seen = SourceUrlExists(SourceKey(job))]]
                /\ UNCHANGED attempts
    /\ UNCHANGED <<job_feed, search_configs, fetcher, ingests>>
    /\ KanbanUnchanged

\* The statement completes: it inserts the row unless its read found the
\* source_url (job_feed has no unique index on source_url), and RowsAffected
\* classifies the listing.  `fail` is the statement's error, logged and skipped.
InsertListing(w, fail) ==
    /\ workers[w].pc = "insert"
    /\ LET wr == workers[w]
           cfg == wr.cfgs[wr.ci]
           job == wr.results[wr.ri]
           outcome == IF fail THEN "error" ELSE IF wr.seen THEN "duplicate" ELSE "inserted"
           counted == [wr EXCEPT !.inserted = IF outcome = "inserted" THEN @ + 1 ELSE @,
                                 !.dupes = IF outcome = "duplicate" THEN @ + 1 ELSE @]
       IN  /\ job_feed' = IF outcome = "inserted"
                          THEN Append(job_feed,
                                 [search_config_id |-> cfg.ID, raw_data |-> job,
                                  source_url |-> SourceKey(job), status |-> "PENDING"])
                          ELSE job_feed
           /\ ingests' = Append(ingests,
                 [worker |-> w, config |-> cfg.ID, job |-> job,
                  source_url |-> SourceKey(job), outcome |-> outcome])
           /\ workers' = [workers EXCEPT ![w] = AfterListing(counted)]
           /\ attempts' = Returned(counted, attempts)
    /\ UNCHANGED <<search_configs, fetcher>>
    /\ KanbanUnchanged

-----------------------------------------------------------------------------
(* The tracker and triage requests against a database that holds two saved   *)
(* searches, one per user, and one posting discovered for the first of them. *)

SeedConfigs ==
    << [user_id |-> "u1", job_titles |-> <<"Go Developer">>, locations |-> <<"Paris">>,
        red_flags |-> <<FlagUnpaid>>, is_active |-> TRUE],
       [user_id |-> "u2", job_titles |-> <<"Go Developer">>, locations |-> <<"Paris">>,
        red_flags |-> <<>>, is_active |-> TRUE] >>

SeedFeed ==
    << [search_config_id |-> 1, raw_data |-> JobSameUrl, source_url |-> "url1",
        status |-> "PENDING"] >>

InitKanban ==
    /\ applications = <<>>
    /\ job_feed = SeedFeed
    /\ search_configs = SeedConfigs
    /\ now = 0
    /\ events = <<>>
    /\ commands = {}
    /\ calls = [p \in Procs |-> Idle]
    /\ fetcher = Configured
    /\ workers = [w \in Workers |-> IdleWorker]
    /\ attempts = <<>>
    /\ ingests = <<>>
    /\ probe = NoProbe

\* Two connections race on one card of the board: the tracker's MoveCard and
\* the two ways of creating the card.
NextRace ==
    \E p \in Procs :
       \/ \E u \in Users, a \in 1..MaxApps, raw \in RawStatuses, fail \in BOOLEAN :
             MoveCardSelect(p, u, a, raw, fail)
       \/ \E fail \in BOOLEAN : MoveCardUpdate(p, fail)
       \/ \E fail \in BOOLEAN : archiveSearchConfig(p, fail)
       \/ \E fail \in BOOLEAN : MoveCardPublish(p, fail)
       \/ \E u \in Users, f \in FeedArgs, fail \in BOOLEAN :
             applications = <<>> /\ createApplication(p, u, f, fail)
       \/ \E u \in Users, f \in FeedArgs, fail \in BOOLEAN :
             applications = <<>> /\ CreateApplication(p, u, f, fail)
       \/ \E fail \in BOOLEAN : CreateApplicationPublish(p, fail)
       \/ Return(p)

SpecRace == InitKanban /\ [][NextRace]_vars

\* Two connections create applications and triage the feed.
NextTriage ==
    \E p \in Procs :
       \/ \E u \in Users, f \in FeedArgs, fail \in BOOLEAN :
             createApplication(p, u, f, fail)
       \/ \E u \in Users, f \in FeedArgs, fail \in BOOLEAN :
             CreateApplication(p, u, f, fail)
       \/ \E fail \in BOOLEAN : CreateApplicationPublish(p, fail)
       \/ \E u \in Users, f \in FeedArgs, fail \in BOOLEAN :
             approveJobSelect(p, u, f, fail)
       \/ \E fail \in BOOLEAN : approveJobUpdate(p, fail)
       \/ \E fail \in BOOLEAN : approveJobInsert(p, fail)
       \/ \E fail \in BOOLEAN : approveJobPublish(p, fail)
       \/ \E u \in Users, f \in FeedArgs, fail \in BOOLEAN : rejectJob(p, u, f, fail)
       \/ Return(p)

SpecTriage == InitKanban /\ [][NextTriage]_vars

-----------------------------------------------------------------------------
(* One discovery cycle over every shape of two saved searches.               *)

MaxTitles == 2       \* job titles of a saved search
MaxLocations == 2    \* locations of a saved search

TitlePool == <<"Go Developer", "Backend Engineer", "SRE", "Data Engineer">>
LocationPool == <<"Paris", "Lyon", "Remote", "Lille">>

CycleConfigs(user, flags) ==
    { [user_id |-> user, job_titles |-> SubSeq(TitlePool, 1, n),
       locations |-> SubSeq(LocationPool, 1, m), red_flags |-> flags,
       is_active |-> act] :
         n \in 0..MaxTitles, m \in 0..MaxLocations, act \in BOOLEAN }

InitDiscovery ==
    /\ applications = <<>>
    /\ now = 0
    /\ events = <<>>
    /\ commands = {}
    /\ calls = [p \in Procs |-> Idle]
    /\ workers = [w \in Workers |-> IdleWorker]
    /\ attempts = <<>>
    /\ ingests = <<>>
    /\ probe = NoProbe

InitCycle ==
    /\ InitDiscovery
    /\ \E c1 \in CycleConfigs("u1", <<FlagUnpaid>>), c2 \in CycleConfigs("u2", <<>>) :
          search_configs = <<c1, c2>>
    /\ job_feed = <<>>
    /\ fetcher \in {Configured, Unconfigured, MissingId, MissingKey}

\* What the upstream API answers in this cycle: an error, or one page holding
\* one of two listings that share a URL.
CycleScripts == { <<PageError>>, <<Page(<<JobUnpaid>>)>>, <<Page(<<JobSameUrl>>)>> }

NextCycle ==
    \/ \E fail \in BOOLEAN : runScrape("w1", fail)
    \/ \E script \in CycleScripts : FetchPair("w1", script)
    \/ ProcessListing("w1")
    \/ \E fail \in BOOLEAN : InsertListing("w1", fail)

SpecCycle == InitCycle /\ [][NextCycle]_vars

-----------------------------------------------------------------------------
(* Two cycles overlap (the start-up run and a cron tick, or two scheduler    *)
(* instances) over the two seeded searches.                                  *)

InitIngest ==
    /\ InitDiscovery
    /\ search_configs = SeedConfigs
    /\ job_feed = <<>>
    /\ fetcher = Configured

NextIngest ==
    \E w \in Workers :
       \/ \E fail \in BOOLEAN : runScrape(w, fail)
       \/ \E script \in FetchScripts : FetchPair(w, script)
       \/ ProcessListing(w)
       \/ \E fail \in BOOLEAN : InsertListing(w, fail)

SpecIngest == InitIngest /\ [][NextIngest]_vars

-----------------------------------------------------------------------------
(* The annotations of one card (note, rating, reminder), the card being in   *)
(* any of the six statuses with the history that led it there.               *)

BoardPath == <<StatusToApply, StatusApplied, StatusInterview, StatusOffer, StatusHired>>

\* The history_log of a card that MoveCard brought to status st.
StoredHistory(st) ==
    IF st = StatusRejected
    THEN <<HistoryEntry(StatusToApply, StatusRejected, 0)>>
    ELSE LET n == CHOOSE i \in 1..Len(BoardPath) : BoardPath[i] = st
         IN  [i \in 1..(n - 1) |-> HistoryEntry(BoardPath[i], BoardPath[i + 1], 0)]

BoardCard(user, st) ==
    [user_id |-> user, job_feed_id |-> NULL, current_status |-> st,
     user_notes |-> NULL, user_rating |-> NULL, relance_reminder_at |-> NULL,
     history_log |-> StoredHistory(st), updated_at |-> 0]

InitBoard ==
    /\ \E st \in Statuses : applications = <<BoardCard("u1", st)>>
    /\ job_feed = SeedFeed
    /\ search_configs = SeedConfigs
    /\ now = 0
    /\ events = <<>>
    /\ commands = {}
    /\ calls = [p \in Procs |-> Idle]
    /\ fetcher = Configured
    /\ workers = [w \in Workers |-> IdleWorker]
    /\ attempts = <<>>
    /\ ingests = <<>>
    /\ probe = NoProbe

NextBoard ==
    \E p \in Procs :
       \/ \E u \in Users, a \in 1..MaxApps, note \in Notes, fail \in BOOLEAN :
             AddNote(p, u, a, note, fail)
       \/ \E u \in Users, a \in 1..MaxApps, rating \in Ratings, fail \in BOOLEAN :
             RateApplication(p, u, a, rating, fail)
       \/ \E u \in Users, a \in 1..MaxApps, remindAt \in RemindAts, fail \in BOOLEAN :
             SetRelanceReminder(p, u, a, remindAt, fail)
       \/ Return(p)

SpecBoard == InitBoard /\ [][NextBoard]_vars

-----------------------------------------------------------------------------
(* One card under MoveCard, AddNote and RateApplication: two connections     *)
(* move it while notes and ratings are written over the first.               *)

NextCard ==
    \/ \E p \in Procs :
          \/ \E u \in Users, raw \in RawStatuses, fail \in BOOLEAN :
                MoveCardSelect(p, u, 1, raw, fail)
          \/ \E fail \in BOOLEAN : MoveCardUpdate(p, fail)
          \/ \E fail \in BOOLEAN : archiveSearchConfig(p, fail)
          \/ \E fail \in BOOLEAN : MoveCardPublish(p, fail)
          \/ Return(p)
    \/ \E u \in Users, fail \in BOOLEAN : AddNote("p1", u, 1, "n1", fail)
    \/ \E u \in Users, fail \in BOOLEAN : RateApplication("p1", u, 1, 5, fail)

SpecCard == InitBoard /\ [][NextCard]_vars

-----------------------------------------------------------------------------
(* One connection, used by the owner of the card and by the other user, for  *)
(* the four operations that take (owner, applicationId).                     *)

NextOwner ==
    \/ \E u \in Users, a \in 1..MaxApps, raw \in RawStatuses, fail \in BOOLEAN :
          MoveCardSelect("p1", u, a, raw, fail)
    \/ \E fail \in BOOLEAN : MoveCardUpdate("p1", fail)
    \/ \E fail \in BOOLEAN : archiveSearchConfig("p1", fail)
    \/ \E fail \in BOOLEAN : MoveCardPublish("p1", fail)
    \/ \E u \in Users, a \in 1..MaxApps, note \in Notes, fail \in BOOLEAN :
          AddNote("p1", u, a, note, fail)
    \/ \E u \in Users, a \in 1..MaxApps, rating \in Ratings, fail \in BOOLEAN :
          RateApplication("p1", u, a, rating, fail)
    \/ \E u \in Users, a \in 1..MaxApps, remindAt \in RemindAts, fail \in BOOLEAN :
          SetRelanceReminder("p1", u, a, remindAt, fail)
    \/ Return("p1")

SpecOwner == InitBoard /\ [][NextOwner]_vars

-----------------------------------------------------------------------------
(* A discovery cycle runs while the owner of the first search moves the card *)
(* derived from its posting, which stands at OFFER.                          *)

InitPoll ==
    /\ applications = <<[BoardCard("u1", StatusOffer) EXCEPT !.job_feed_id = Some(1)]>>
    /\ job_feed = [SeedFeed EXCEPT ![1].status = "APPROVED"]
    /\ search_configs = SeedConfigs
    /\ now = 0
    /\ events = <<>>
    /\ commands = {}
    /\ calls = [p \in Procs |-> Idle]
    /\ fetcher = Configured
    /\ workers = [w \in Workers |-> IdleWorker]
    /\ attempts = <<>>
    /\ ingests = <<>>
    /\ probe = NoProbe

NextPoll ==
    \/ \E u \in Users, a \in 1..MaxApps, raw \in RawStatuses, fail \in BOOLEAN :
          MoveCardSelect("p1", u, a, raw, fail)
    \/ \E fail \in BOOLEAN : MoveCardUpdate("p1", fail)
    \/ \E fail \in BOOLEAN : archiveSearchConfig("p1", fail)
    \/ \E fail \in BOOLEAN : MoveCardPublish("p1", fail)
    \/ Return("p1")
    \/ \E fail \in BOOLEAN : runScrape("w1", fail)
    \/ \E script \in FetchScripts : FetchPair("w1", script)
    \/ ProcessListing("w1")
    \/ \E fail \in BOOLEAN : InsertListing("w1", fail)

SpecPoll == InitPoll /\ [][NextPoll]_vars

-----------------------------------------------------------------------------
(* One cycle of a single scheduler over the two seeded searches, the         *)
(* upstream API answering with any of the scripts.                           *)

NextScrape ==
    \/ \E fail \in BOOLEAN : runScrape("w1", fail)
    \/ \E script \in FetchScripts : FetchPair("w1", script)
    \/ ProcessListing("w1")
    \/ \E fail \in BOOLEAN : InsertListing("w1", fail)

SpecScrape == InitIngest /\ [][NextScrape]_vars

-----------------------------------------------------------------------------
(* One cycle over the two seeded searches against an upstream API that       *)
(* fails on the first page or after one or two full pages.                   *)

FullBatch == [i \in 1..adzunaPageSize |-> JobNoUrl]

PageFailScripts ==
    { <<PageError>>,
      <<Page(FullBatch), PageError>>,
      <<Page(FullBatch), Page(FullBatch), PageError>>,
      <<Page(<<JobUnpaid, JobSameUrl>>)>>,
      <<Page(<<JobSameUrl>>)>>,
      <<>> }

NextPages ==
    \/ \E fail \in BOOLEAN : runScrape("w1", fail)
    \/ \E script \in PageFailScripts : FetchPair("w1", script)
    \/ ProcessListing("w1")
    \/ \E fail \in BOOLEAN : InsertListing("w1", fail)

SpecPages == InitIngest /\ [][NextPages]_vars

-----------------------------------------------------------------------------
(* The start-up cycle (w1) and, once it is over, the cycle of the next cron  *)
(* tick (w2).  Every call of Fetch and every statement returns, so a cycle   *)
(* that can take a step eventually takes one.                                *)

\* The cycle of worker w goes on: the fetch of a pair returns, a listing is
\* filtered, an INSERT returns.
Proceed(w) ==
    \/ \E script \in PageFailScripts : FetchPair(w, script)
    \/ ProcessListing(w)
    \/ \E fail \in BOOLEAN : InsertListing(w, fail)

NextTicks ==
    \/ \E fail \in BOOLEAN : runScrape("w1", fail)
    \/ \E fail \in BOOLEAN : workers["w1"].pc = "done" /\ runScrape("w2", fail)
    \/ \E w \in Workers : Proceed(w)

SpecTicks ==
    InitIngest /\ [][NextTicks]_vars /\ \A w \in Workers : WF_vars(Proceed(w))

-----------------------------------------------------------------------------
(* The user service: editing and soft-deleting a saved search, over gRPC     *)
(* (grpc/server.js) and over REST (routes/searchConfig.js).                  *)

\* WHERE id = $8 AND user_id = $9
ConfigOwned(id, user) == id \in ConfigIds /\ search_configs[id].user_id = user

\* variant: an edit makes the saved search active again
updateSearchConfig_Reactivate(p, user, id, jobTitles, redFlags, fail) ==
    /\ CanStart(p)
    /\ LET c == Begin("updateSearchConfig", "done", user, id, NULL)
       IN  IF fail
           THEN /\ calls' = [calls EXCEPT ![p] = Failed(c, "Internal")]
                /\ UNCHANGED search_configs
           ELSE IF ~ConfigOwned(id, user)
           THEN /\ calls' = [calls EXCEPT ![p] = Done(c, "NotFound", 0)]
                /\ UNCHANGED search_configs
           ELSE /\ search_configs' = [search_configs EXCEPT ![id] =
                       [@ EXCEPT !.job_titles = IF jobTitles = <<>> THEN @ ELSE jobTitles,
                                 !.red_flags = IF redFlags = <<>> THEN @ ELSE redFlags,
                                 !.is_active = TRUE]]
                /\ calls' = [calls EXCEPT ![p] = Done(c, "ok", id)]
    /\ UNCHANGED <<applications, job_feed, now, events, commands>>
    /\ DiscoveryUnchanged

\* gRPC updateSearchConfig: COALESCE(NULLIF($n::text[], '{}'), column), an
\* empty list leaves the column as it is; is_active is not in the SET list.
updateSearchConfig(p, user, id, jobTitles, redFlags, fail) ==
    /\ CanStart(p)
    /\ LET c == Begin("updateSearchConfig", "done", user, id, NULL)
       IN  IF fail
           THEN /\ calls' = [calls EXCEPT ![p] = Failed(c, "Internal")]
                /\ UNCHANGED search_configs
           ELSE IF ~ConfigOwned(id, user)
           THEN /\ calls' = [calls EXCEPT ![p] = Done(c, "NotFound", 0)]
                /\ UNCHANGED search_configs
           ELSE /\ search_configs' = [search_configs EXCEPT ![id] =
                       [@ EXCEPT !.job_titles = IF jobTitles = <<>> THEN @ ELSE jobTitles,
                                 !.red_flags = IF redFlags = <<>> THEN @ ELSE redFlags]]
                /\ calls' = [calls EXCEPT ![p] = Done(c, "ok", id)]
    /\ UNCHANGED <<applications, job_feed, now, events, commands>>
    /\ DiscoveryUnchanged

\* router.put('/:id'): COALESCE($n, column), a field absent from the body
\* (NULL) leaves the column as it is, a present one replaces it.
routerPut(p, user, id, jobTitles, redFlags, fail) ==
    /\ CanStart(p)
    /\ LET c == Begin("router.put", "done", user, id, NULL)
       IN  IF fail
           THEN /\ calls' = [calls EXCEPT ![p] = Failed(c, "Internal")]
                /\ UNCHANGED search_configs
           ELSE IF ~ConfigOwned(id, user)
           THEN /\ calls' = [calls EXCEPT ![p] = Done(c, "NotFound", 0)]
                /\ UNCHANGED search_configs
           ELSE /\ search_configs' = [search_configs EXCEPT ![id] =
                       [@ EXCEPT !.job_titles = IF jobTitles = NULL THEN @ ELSE jobTitles[1],
                                 !.red_flags = IF redFlags = NULL THEN @ ELSE redFlags[1]]]
                /\ calls' = [calls EXCEPT ![p] = Done(c, "ok", id)]
    /\ UNCHANGED <<applications, job_feed, now, events, commands>>
    /\ DiscoveryUnchanged

\* deleteSearchConfig and router.delete('/:id'), the same statement:
\* UPDATE search_configs SET is_active = false WHERE id AND user_id.
deleteSearchConfig(p, user, id, fail) ==
    /\ CanStart(p)
    /\ LET c == Begin("deleteSearchConfig", "done", user, id, NULL)
       IN  IF fail
           THEN /\ calls' = [calls EXCEPT ![p] = Failed(c, "Internal")]
                /\ UNCHANGED search_configs
           ELSE IF ~ConfigOwned(id, user)
           THEN /\ calls' = [calls EXCEPT ![p] = Done(c, "NotFound", 0)]
                /\ UNCHANGED search_configs
           ELSE /\ search_configs' = [search_configs EXCEPT ![id].is_active = FALSE]
                /\ calls' = [calls EXCEPT ![p] = Done(c, "ok", id)]
    /\ UNCHANGED <<applications, job_feed, now, events, commands>>
    /\ DiscoveryUnchanged

\* The red-flag lists a client sends in an edit.
EditFlags == {<<>>, <<FlagUnpaid>>}

\* The saved searches are edited and deleted by both users while the owner
\* of the first search moves the card derived from it to HIRED, applications
\* are created, the posting is triaged and a discovery cycle runs.
NextEdit ==
    \/ \E u \in Users, id \in ConfigIds, fail \in BOOLEAN :
          \/ \E r \in EditFlags : updateSearchConfig("p1", u, id, <<>>, r, fail)
          \/ \E r \in {NULL, Some(<<>>)} : routerPut("p1", u, id, NULL, r, fail)
          \/ deleteSearchConfig("p1", u, id, fail)
    \/ MoveCardSelect("p1", "u1", 1, StatusHired, FALSE)
    \/ MoveCardUpdate("p1", FALSE)
    \/ \E fail \in BOOLEAN : archiveSearchConfig("p1", fail)
    \/ MoveCardPublish("p1", FALSE)
    \/ createApplication("p1", "u2", Some(1), FALSE)
    \/ approveJobSelect("p1", "u1", Some(1), FALSE)
    \/ approveJobUpdate("p1", FALSE)
    \/ approveJobInsert("p1", FALSE)
    \/ approveJobPublish("p1", FALSE)
    \/ rejectJob("p1", "u1", Some(1), FALSE)
    \/ Return("p1")
    \/ runScrape("w1", FALSE)
    \/ FetchPair("w1", <<Page(<<JobSameUrl>>)>>)
    \/ ProcessListing("w1")
    \/ InsertListing("w1", FALSE)

SpecEdit == InitPoll /\ [][NextEdit]_vars

-----------------------------------------------------------------------------
(* The pure functions of transitions.go applied to arbitrary strings.        *)

ProbeStrings == Statuses \cup {"hired", "to_apply", "Offer", "ARCHIVED", ""}

InitTransitions ==
    /\ InitDiscovery
    /\ search_configs = SeedConfigs
    /\ job_feed = SeedFeed
    /\ fetcher = Configured

CallIsTransitionAllowed(from, to) ==
    /\ probe' = [fn |-> "IsTransitionAllowed", from |-> from, to |-> to,
                 out |-> IsTransitionAllowed(from, to)]
    /\ UNCHANGED <<applications, job_feed, search_configs, now, events, commands,
                   calls, fetcher, workers, attempts, ingests>>

\* Raw strings handed to ParseStatus: the six tokens, lowercase and mixed-case
\* variants, padded values, an unknown token and the empty string.
ParseInputs ==
    ProbeStrings \cup {"applied", "Rejected", " TO_APPLY", "TO_APPLY ", " HIRED ",
                       "OFFER\n", "\tINTERVIEW"}

CallParseStatus(raw) ==
    /\ probe' = [fn |-> "ParseStatus", from |-> raw, to |-> ParseStatus(raw).st,
                 out |-> ~ParseStatus(raw).err]
    /\ UNCHANGED <<applications, job_feed, search_configs, now, events, commands,
                   calls, fetcher, workers, attempts, ingests>>

NextTransitions ==
    \/ \E from \in ProbeStrings, to \in ProbeStrings : CallIsTransitionAllowed(from, to)
    \/ \E raw \in ParseInputs : CallParseStatus(raw)

SpecTransitions == InitTransitions /\ [][NextTransitions]_vars

-----------------------------------------------------------------------------
(* Fetch, one request at a time, against an upstream API that answers each   *)
(* page with an error, an empty page, a short page or a full page.           *)

MaxScriptLen == 4

Batch(n) == [i \in 1..n |-> JobNoUrl]

PageAnswers ==
    {PageError} \cup {Page(Batch(n)) : n \in {0, 1, adzunaPageSize - 1, adzunaPageSize}}

PagedScripts == UNION {[1..n -> PageAnswers] : n \in 0..MaxScriptLen}

\* Fetch is called (one call is followed from its start to its return): the
\* credentials check, then the loop starts at page 1.
FetchStart(f, script) ==
    /\ probe = NoProbe
    /\ probe' = [fn |-> "Fetch", f |-> f, script |-> script, page |-> 1,
                 requested |-> <<>>, results |-> <<>>, err |-> FALSE,
                 pc |-> IF f.AppID = "" \/ f.AppKey = "" THEN "done" ELSE "loop"]
    /\ UNCHANGED <<applications, job_feed, search_configs, now, events, commands,
                   calls, fetcher, workers, attempts, ingests>>

\* variant: a short page does not end the loop
FetchRequestPage_PastShortPage ==
    /\ probe.fn = "Fetch"
    /\ probe.pc = "loop"
    /\ LET r == fetchPage(probe.script, probe.page)
           sent == [probe EXCEPT !.requested = Append(@, probe.page)]
       IN  probe' =
              IF r.err THEN [sent EXCEPT !.err = TRUE, !.pc = "done"]
              ELSE IF Len(r.batch) = 0 THEN [sent EXCEPT !.pc = "done"]
              ELSE [sent EXCEPT !.results = @ \o r.batch, !.page = @ + 1,
                                !.pc = IF probe.page + 1 <= adzunaMaxPages
                                       THEN "loop" ELSE "done"]
    /\ UNCHANGED <<applications, job_feed, search_configs, now, events, commands,
                   calls, fetcher, workers, attempts, ingests>>

\* One iteration of `for page := 1; page <= adzunaMaxPages; page++`: the
\* request for the page, then return on an error, break on an empty page,
\* append, break on a short page, else the next page while the cap allows.
FetchRequestPage ==
    /\ probe.fn = "Fetch"
    /\ probe.pc = "loop"
    /\ LET r == fetchPage(probe.script, probe.page)
           sent == [probe EXCEPT !.requested = Append(@, probe.page)]
       IN  probe' =
              IF r.err THEN [sent EXCEPT !.err = TRUE, !.pc = "done"]
              ELSE IF Len(r.batch) = 0 THEN [sent EXCEPT !.pc = "done"]
              ELSE IF Len(r.batch) < adzunaPageSize
                   THEN [sent EXCEPT !.results = @ \o r.batch, !.pc = "done"]
              ELSE [sent EXCEPT !.results = @ \o r.batch, !.page = @ + 1,
                                !.pc = IF probe.page + 1 <= adzunaMaxPages
                                       THEN "loop" ELSE "done"]
    /\ UNCHANGED <<applications, job_feed, search_configs, now, events, commands,
                   calls, fetcher, workers, attempts, ingests>>

NextFetch ==
    \/ \E f \in {Configured, MissingKey}, script \in PagedScripts : FetchStart(f, script)
    \/ FetchRequestPage

SpecFetch == InitTransitions /\ [][NextFetch]_vars

-----------------------------------------------------------------------------
(* The discovery process from start-up to exit: main, the context it hands   *)
(* to the scheduler, and the HTTP requests fetchPage issues under it.        *)

MaxRequests == 4

\* main after start-up: ctx is live, the scheduler runs, no request is out.
MainServing ==
    [fn |-> "main", main |-> "serving", ctx |-> "live", request |-> "none",
     sentUnder |-> "", ended |-> <<>>]

\* main() up to ListenAndServe: context.WithCancel, sched.Start(ctx)
main ==
    /\ probe = NoProbe
    /\ probe' = MainServing
    /\ UNCHANGED <<applications, job_feed, search_configs, now, events, commands,
                   calls, fetcher, workers, attempts, ingests>>

\* fetchPage: http.NewRequestWithContext(ctx, ...) and f.client.Do(req) is
\* waiting; the worker issues its requests one after the other.
httpDo ==
    /\ probe.fn = "main"
    /\ probe.main # "exited"
    /\ probe.request = "none"
    /\ Len(probe.ended) < MaxRequests
    /\ probe' = [probe EXCEPT !.request = "inflight", !.sentUnder = probe.ctx]
    /\ UNCHANGED <<applications, job_feed, search_configs, now, events, commands,
                   calls, fetcher, workers, attempts, ingests>>

\* client.Do returns: the response, or the client's own timeout (httpTimeout).
httpReturn(outcome) ==
    /\ probe.fn = "main"
    /\ probe.main # "exited"
    /\ probe.request = "inflight"
    /\ probe' = [probe EXCEPT !.request = "none", !.ended = Append(@, outcome)]
    /\ UNCHANGED <<applications, job_feed, search_configs, now, events, commands,
                   calls, fetcher, workers, attempts, ingests>>

\* client.Do returns "context canceled": the request carries main's ctx.
httpCanceled ==
    /\ probe.fn = "main"
    /\ probe.main # "exited"
    /\ probe.request = "inflight"
    /\ probe.ctx = "canceled"
    /\ probe' = [probe EXCEPT !.request = "none", !.ended = Append(@, "canceled")]
    /\ UNCHANGED <<applications, job_feed, search_configs, now, events, commands,
                   calls, fetcher, workers, attempts, ingests>>

\* SIGINT / SIGTERM: <-quit, then cancel()
Interrupt ==
    /\ probe.fn = "main"
    /\ probe.main = "serving"
    /\ probe' = [probe EXCEPT !.main = "shutdown", !.ctx = "canceled"]
    /\ UNCHANGED <<applications, job_feed, search_configs, now, events, commands,
                   calls, fetcher, workers, attempts, ingests>>

\* srv.Shutdown returned, the deferred sched.Stop ran and main returns: the
\* process ends with whatever its goroutines were doing.
Exit ==
    /\ probe.fn = "main"
    /\ probe.main = "shutdown"
    /\ probe' = [probe EXCEPT !.main = "exited", !.request = "none",
                              !.ended = IF probe.request = "inflight"
                                        THEN Append(@, "exit") ELSE @]
    /\ UNCHANGED <<applications, job_feed, search_configs, now, events, commands,
                   calls, fetcher, workers, attempts, ingests>>

NextShutdown ==
    \/ main
    \/ httpDo
    \/ \E outcome \in {"response", "timeout"} : httpReturn(outcome)
    \/ httpCanceled
    \/ Interrupt
    \/ Exit

SpecShutdown == InitTransitions /\ [][NextShutdown]_vars

-----------------------------------------------------------------------------
(* The gateway's SSEManager: the registry of one response per user, the      *)
(* responses handed to it and what was written to each.                      *)

MaxResponses == 3
MaxFrames == 2

\* _write: res.write(`data: ${JSON.stringify(payload)}\n\n`)
Frame(payload) == <<"data: ", payload, "\n\n">>

SsePayloads == { [type |-> "CARD_MOVED"], [type |-> "ANALYSIS_DONE"] }

\* new SSEManager(): an empty Map (0: the user has no entry).  `responses` are
\* the express responses of the /events requests so far.
NewSSEManager ==
    /\ probe = NoProbe
    /\ probe' = [fn |-> "SSEManager", connections |-> [u \in Users |-> 0],
                 responses |-> <<>>]
    /\ UNCHANGED <<applications, job_feed, search_configs, now, events, commands,
                   calls, fetcher, workers, attempts, ingests>>

\* variant: the previous response of the user is left open
SSEAdd_KeepOld(userId) ==
    /\ probe.fn = "SSEManager"
    /\ Len(probe.responses) < MaxResponses
    /\ LET res == Len(probe.responses) + 1
       IN  probe' = [probe EXCEPT
              !.responses = Append(probe.responses,
                               [user |-> userId, ended |-> FALSE,
                                written |-> <<Frame([type |-> "connected",
                                                     userId |-> userId])>>]),
              !.connections = [@ EXCEPT ![userId] = res]]
    /\ UNCHANGED <<applications, job_feed, search_configs, now, events, commands,
                   calls, fetcher, workers, attempts, ingests>>

\* add(userId, res), res being the response of a new /events request: end()
\* the response registered for the user, if any, register res, write the
\* "connected" frame to it.
SSEAdd(userId) ==
    /\ probe.fn = "SSEManager"
    /\ Len(probe.responses) < MaxResponses
    /\ LET res == Len(probe.responses) + 1
           old == probe.connections[userId]
           closed == IF old # 0 THEN [probe.responses EXCEPT ![old].ended = TRUE]
                     ELSE probe.responses
       IN  probe' = [probe EXCEPT
              !.responses = Append(closed,
                               [user |-> userId, ended |-> FALSE,
                                written |-> <<Frame([type |-> "connected",
                                                     userId |-> userId])>>]),
              !.connections = [@ EXCEPT ![userId] = res]]
    /\ UNCHANGED <<applications, job_feed, search_configs, now, events, commands,
                   calls, fetcher, workers, attempts, ingests>>

\* remove(userId): this.connections.delete(userId)
SSERemove(userId) ==
    /\ probe.fn = "SSEManager"
    /\ probe' = [probe EXCEPT !.connections = [@ EXCEPT ![userId] = 0]]
    /\ UNCHANGED <<applications, job_feed, search_configs, now, events, commands,
                   calls, fetcher, workers, attempts, ingests>>

\* One more frame on every response of the set `to`.
Written(responses, to, payload) ==
    [i \in 1..Len(responses) |->
        IF i \in to THEN [responses[i] EXCEPT !.written = Append(@, Frame(payload))]
        ELSE responses[i]]

\* The responses in the registry.
Registered == {probe.connections[u] : u \in Users} \ {0}

\* variant: the frame goes to every registered response
SSESend_ToAll(userId, payload) ==
    /\ probe.fn = "SSEManager"
    /\ \A i \in Registered : Len(probe.responses[i].written) < MaxFrames
    /\ probe' = [probe EXCEPT
          !.responses = IF probe.connections[userId] = 0 THEN @
                        ELSE Written(@, Registered, payload)]
    /\ UNCHANGED <<applications, job_feed, search_configs, now, events, commands,
                   calls, fetcher, workers, attempts, ingests>>

\* send(userId, payload): one frame to the user's registered response, or a
\* warning and return when there is none.
SSESend(userId, payload) ==
    /\ probe.fn = "SSEManager"
    /\ \A i \in Registered : Len(probe.responses[i].written) < MaxFrames
    /\ probe' = [probe EXCEPT
          !.responses = IF probe.connections[userId] = 0 THEN @
                        ELSE Written(@, {probe.connections[userId]}, payload)]
    /\ UNCHANGED <<applications, job_feed, search_configs, now, events, commands,
                   calls, fetcher, workers, attempts, ingests>>

\* broadcast(payload): one frame to every registered response
SSEBroadcast(payload) ==
    /\ probe.fn = "SSEManager"
    /\ \A i \in Registered : Len(probe.responses[i].written) < MaxFrames
    /\ probe' = [probe EXCEPT !.responses = Written(@, Registered, payload)]
    /\ UNCHANGED <<applications, job_feed, search_configs, now, events, commands,
                   calls, fetcher, workers, attempts, ingests>>

NextSSE ==
    \/ NewSSEManager
    \/ \E u \in Users : SSEAdd(u)
    \/ \E u \in Users : SSERemove(u)
    \/ \E u \in Users, payload \in SsePayloads : SSESend(u, payload)
    \/ \E payload \in SsePayloads : SSEBroadcast(payload)

SpecSSE == InitTransitions /\ [][NextSSE]_vars

-----------------------------------------------------------------------------
(* The /events route of the gateway: each request registers its response and *)
(* a handler of its 'close' event; `closed` are the requests whose 'close'   *)
(* event has fired.                                                          *)

\* export const sseManager = new SSEManager()
gatewayStart ==
    /\ probe = NoProbe
    /\ probe' = [fn |-> "SSEManager", connections |-> [u \in Users |-> 0],
                 responses |-> <<>>, closed |-> {}]
    /\ UNCHANGED <<applications, job_feed, search_configs, now, events, commands,
                   calls, fetcher, workers, attempts, ingests>>

\* req.on('close', () => { clearInterval(keepalive); sseManager.remove(userId) })
\* of request i: the client went away, or the response was ended.
reqClose(i) ==
    /\ probe.fn = "SSEManager"
    /\ i \in 1..Len(probe.responses)
    /\ i \notin probe.closed
    /\ probe' = [probe EXCEPT !.connections = [@ EXCEPT ![probe.responses[i].user] = 0],
                              !.closed = @ \cup {i}]
    /\ UNCHANGED <<applications, job_feed, search_configs, now, events, commands,
                   calls, fetcher, workers, attempts, ingests>>

NextEvents ==
    \/ gatewayStart
    \/ \E u \in Users : SSEAdd(u)
    \/ \E i \in 1..MaxResponses : reqClose(i)
    \/ \E u \in Users, payload \in SsePayloads : SSESend(u, payload)

SpecEvents == InitTransitions /\ [][NextEvents]_vars

-----------------------------------------------------------------------------
(* The red-flag filter applied to short texts and flag lists.                *)

FlagUnpaidUpper == <<"U", "N", "P", "A", "I", "D">>
FlagAcrossFields == <<"r", " ", "a">>
FlagJoinedFields == <<"r", "a">>
FlagAbsent == <<"x", "y">>

RedFlagTitles == { <<>>, <<"G", "o">>, TextGoDeveloper }
RedFlagCompanies == { <<>>, TextAcme, <<"A", "C">> }
RedFlagDescriptions == { <<>>, TextUnpaidInternship, TextBackendRole }
RedFlagLists ==
    { <<>>, << <<>> >>, <<FlagUnpaid>>, <<FlagUnpaidUpper>>, <<FlagAcrossFields>>,
      <<FlagJoinedFields>>, << <<>>, FlagUnpaid >>, <<FlagAbsent, FlagUnpaidUpper>>,
      <<FlagAbsent>> }

CallContainsRedFlag(title, company, description, redFlags) ==
    /\ probe' = [fn |-> "ContainsRedFlag", title |-> title, company |-> company,
                 description |-> description, redFlags |-> redFlags,
                 out |-> ContainsRedFlag(title, company, description, redFlags)]
    /\ UNCHANGED <<applications, job_feed, search_configs, now, events, commands,
                   calls, fetcher, workers, attempts, ingests>>

NextRedFlag ==
    \E title \in RedFlagTitles, company \in RedFlagCompanies,
       description \in RedFlagDescriptions, redFlags \in RedFlagLists :
          CallContainsRedFlag(title, company, description, redFlags)

SpecRedFlag == InitTransitions /\ [][NextRedFlag]_vars

-----------------------------------------------------------------------------
(* Properties of the application state machine                               *)

\* The transition table as the specification lists it.
TransitionTable ==
    { <<"TO_APPLY", "APPLIED">>, <<"TO_APPLY", "REJECTED">>,
      <<"APPLIED", "INTERVIEW">>, <<"APPLIED", "REJECTED">>,
      <<"INTERVIEW", "OFFER">>, <<"INTERVIEW", "REJECTED">>,
      <<"OFFER", "HIRED">>, <<"OFFER", "REJECTED">> }

\* Connection p starts a MoveCard in this step, on an existing card of the
\* caller, with a well-formed target, and the status read succeeds.
MoveCardStarts(p) ==
    /\ calls[p].pc = "idle"
    /\ calls'[p].op = "MoveCard"
    /\ calls'[p].new \in Statuses
    /\ Owned(calls'[p].app, calls'[p].user)
    /\ ~calls'[p].dbErr

\* C1: a moveCard whose (current status, target) pair is not in the transition
\* table ends at once in a ValidationError and leaves the applications table,
\* hence the card's current_status and history_log, unchanged.
C1_InvalidMoveRejected ==
    [][\A p \in Procs :
          (/\ MoveCardStarts(p)
           /\ <<applications[calls'[p].app].current_status, calls'[p].new>>
                 \notin TransitionTable)
          => /\ calls'[p].pc = "done"
             /\ calls'[p].res = "ValidationError"
             /\ applications' = applications]_vars

\* A MoveCard out of a terminal status was refused and the card kept its status
\* and its two history records.
C1_Witness ==
    \E p \in Procs :
       /\ calls[p].op = "MoveCard" /\ calls[p].pc = "done"
       /\ calls[p].res = "ValidationError"
       /\ calls[p].cur = StatusRejected /\ calls[p].new = StatusOffer
       /\ applications[calls[p].app].current_status = StatusRejected
       /\ Len(applications[calls[p].app].history_log) = 2

\* C2: a moveCard by the owner whose (current status, target) pair is in the
\* table passes validation; its UPDATE, unless the statement fails, sets
\* current_status to the target and appends exactly one record {from, to} to the
\* history log, from being the status the call was made on; nothing after the
\* UPDATE can fail the call, which answers ok with the card.
C2_ValidMoveApplied ==
    [][\A p \in Procs :
          /\ ((/\ MoveCardStarts(p)
               /\ <<applications[calls'[p].app].current_status, calls'[p].new>>
                     \in TransitionTable)
              => (/\ calls'[p].pc = "update"
                  /\ calls'[p].cur = applications[calls'[p].app].current_status
                  /\ applications' = applications))
          /\ ((/\ calls[p].op = "MoveCard"
               /\ calls[p].pc = "update"
               /\ calls'[p] # calls[p]
               /\ ~calls'[p].dbErr
               /\ applications[calls[p].app].current_status = calls[p].cur)
              => (LET old == applications[calls[p].app]
                      new == applications'[calls[p].app]
                  IN  /\ new.current_status = calls[p].new
                      /\ Len(new.history_log) = Len(old.history_log) + 1
                      /\ SubSeq(new.history_log, 1, Len(old.history_log)) = old.history_log
                      /\ new.history_log[Len(new.history_log)].from = old.current_status
                      /\ new.history_log[Len(new.history_log)].to = calls[p].new
                      /\ calls'[p].pc \in {"archive", "publish"}))
          /\ ((/\ calls[p].op = "MoveCard"
               /\ calls[p].pc \in {"archive", "publish"}
               /\ calls'[p].pc = "done")
              => (/\ calls'[p].res = "ok"
                  /\ calls'[p].ret = calls[p].app))]_vars

\* A card went through the whole board, one record per move, and the last
\* call answered ok.
C2_Witness ==
    \E p \in Procs :
       /\ calls[p].op = "MoveCard" /\ calls[p].pc = "done" /\ calls[p].res = "ok"
       /\ calls[p].new = StatusHired
       /\ applications[calls[p].app].current_status = StatusHired
       /\ Len(applications[calls[p].app].history_log) = 4

\* C3: every committed status change old -> new of a card is a pair of the
\* transition table, old being the status stored immediately before the commit.
C3_CommittedChangeInTable ==
    [][\A a \in AppIds :
          applications'[a].current_status # applications[a].current_status
          => <<applications[a].current_status, applications'[a].current_status>>
                \in TransitionTable]_vars

\* C4: once a card's current_status is HIRED or REJECTED it keeps that value.
C4_TerminalFrozen ==
    [][\A a \in AppIds :
          applications[a].current_status \in {StatusHired, StatusRejected}
          => applications'[a].current_status = applications[a].current_status]_vars

\* C5: for the six statuses, IsTransitionAllowed(from, to) is true exactly for
\* the eight pairs of the table and false for the 28 others.
C5_ExactlyEightPairs ==
    /\ Cardinality(TransitionTable) = 8
    /\ Cardinality((Statuses \X Statuses) \ TransitionTable) = 28
    /\ (probe.fn = "IsTransitionAllowed" /\ probe.from \in Statuses /\ probe.to \in Statuses)
       => (probe.out <=> <<probe.from, probe.to>> \in TransitionTable)

\* The function was asked about a backward move and refused it.
C5_Witness ==
    /\ probe.fn = "IsTransitionAllowed"
    /\ probe.from = StatusApplied /\ probe.to = StatusToApply
    /\ ~probe.out

-----------------------------------------------------------------------------
(* Properties of ingestion and of the creation of applications               *)

\* C6: the feed never holds two rows with the same source_url, however the
\* statements of concurrent ingest callers interleave.
C6_OneRowPerSourceUrl ==
    \A f \in FeedIds, g \in FeedIds :
       job_feed[f].source_url = job_feed[g].source_url => f = g

\* The dedup statements executed so far for one source_url (a statement that
\* failed is logged and skipped: it classifies nothing).
Executed(url) ==
    SelectSeq(ingests, LAMBDA e : e.source_url = url /\ e.outcome # "error")

\* C7: after N >= 1 sequential ingest attempts of one source_url exactly one
\* feed row has it, the first attempt is classified inserted and every later one
\* duplicate, and the row holds the config, payload and status the first
\* attempt wrote.
C7_ReingestIsNoOp ==
    \A i \in 1..Len(ingests) :
       LET url == ingests[i].source_url
           ex == Executed(url)
           rows == {f \in FeedIds : job_feed[f].source_url = url}
       IN  Len(ex) >= 1
           => /\ Cardinality(rows) = 1
              /\ ex[1].outcome = "inserted"
              /\ \A k \in 2..Len(ex) : ex[k].outcome = "duplicate"
              /\ \A f \in rows :
                    /\ job_feed[f].search_config_id = ex[1].config
                    /\ job_feed[f].raw_data = ex[1].job
                    /\ job_feed[f].status = "PENDING"

\* One URL was ingested three times, by two configs and with two payloads.
C7_Witness ==
    \E i \in 1..Len(ingests) :
       LET ex == Executed(ingests[i].source_url)
       IN  /\ Len(ex) >= 3
           /\ ex[1].config # ex[3].config
           /\ ex[1].job # ex[2].job
           /\ ex[3].outcome = "duplicate"

\* A call by connection p that finds an application of its (owner, jobFeedId),
\* the feed id being present, and hits no storage failure.
SecondCreate(p) ==
    /\ calls[p].pc = "idle"
    /\ calls'[p].op \in {"createApplication", "CreateApplication"}
    /\ ~calls'[p].dbErr
    /\ Conflicting(calls'[p].user, calls'[p].feed) # {}

\* C8: a second createApplication with the same (owner, jobFeedId) succeeds,
\* returns the id of the existing application and changes nothing of its row
\* except updated_at.
C8_CreateIdempotent ==
    [][\A p \in Procs :
          SecondCreate(p)
          => LET a == CHOOSE x \in Conflicting(calls'[p].user, calls'[p].feed) : TRUE
             IN  /\ calls'[p].res # "Internal"
                 /\ calls'[p].ret = a
                 /\ applications' =
                       [applications EXCEPT ![a].updated_at = applications'[a].updated_at]]_vars

\* C9: at most one application per (owner, jobFeedId) with a feed id present.
C9_OneApplicationPerFeedItem ==
    \A a \in AppIds, b \in AppIds :
       (/\ applications[a].job_feed_id # NULL
        /\ applications[a].user_id = applications[b].user_id
        /\ applications[a].job_feed_id = applications[b].job_feed_id)
       => a = b

\* Two approvals of one feed item by its owner both passed the 'already
\* approved' check and both ran their INSERT: they hold the same application.
C9_Witness ==
    \E p \in Procs, q \in Procs :
       /\ p # q
       /\ calls[p].op = "approveJob" /\ calls[p].pc = "done" /\ calls[p].res = "ok"
       /\ calls[q].op = "approveJob" /\ calls[q].pc = "publish"
       /\ calls[p].user = calls[q].user /\ calls[p].feed = calls[q].feed
       /\ calls[p].ret = calls[q].ret
       /\ Len(applications) = 1

\* The (config, title, location) triples of the active saved searches.
ActivePairs ==
    { <<c, t, l>> \in ConfigIds \X (1..MaxTitles) \X (1..MaxLocations) :
         /\ search_configs[c].is_active
         /\ t <= Len(search_configs[c].job_titles)
         /\ l <= Len(search_configs[c].locations) }

AttemptedPair(k) == <<attempts[k].config, attempts[k].ti, attempts[k].li>>

\* C10: no pair is attempted twice, and a cycle that loaded its configs ends
\* with every pair of titles x locations of every active config attempted,
\* whatever failed on the way.
C10_EveryPairAttemptedOnce ==
    /\ \A j \in 1..Len(attempts), k \in 1..Len(attempts) :
          AttemptedPair(j) = AttemptedPair(k) => j = k
    /\ \A k \in 1..Len(attempts) :
          /\ AttemptedPair(k) \in ActivePairs
          /\ attempts[k].title = search_configs[attempts[k].config].job_titles[attempts[k].ti]
          /\ attempts[k].location = search_configs[attempts[k].config].locations[attempts[k].li]
    /\ (workers["w1"].pc = "done" /\ ~workers["w1"].loadErr)
       => {AttemptedPair(k) : k \in 1..Len(attempts)} = ActivePairs

\* A cycle over eight pairs ended although its first fetch failed and a
\* dedup statement failed later.
C10_Witness ==
    /\ workers["w1"].pc = "done"
    /\ Len(attempts) = 8
    /\ attempts[1].err
    /\ \E i \in 1..Len(ingests) : ingests[i].outcome = "error"

-----------------------------------------------------------------------------
(* Properties of the side effects of MoveCard                                *)

\* The card-moved event of the call of connection p.
CardMoved(p) ==
    [type |-> "EVENT_CARD_MOVED", applicationId |-> calls[p].app,
     userId |-> calls[p].user, from |-> calls[p].cur, to |-> calls[p].new]

\* The SearchConfig a card is linked to through its feed item, if any.
LinkedConfig(app) ==
    IF applications[app].job_feed_id = NULL THEN {}
    ELSE {job_feed[applications[app].job_feed_id[1]].search_config_id}

\* Connection p's MoveCard takes a step out of position pc.
MoveCardStepFrom(p, pc) ==
    calls[p].op = "MoveCard" /\ calls[p].pc = pc /\ calls'[p] # calls[p]

C12_RejectedMoveHasNoSideEffect ==
    [][\A p \in Procs :
          (/\ calls'[p].op = "MoveCard"
           /\ calls'[p].pc = "done"
           /\ calls'[p] # calls[p]
           /\ calls'[p].res # "ok")
          => (/\ events' = events
              /\ search_configs' = search_configs
              /\ applications' = applications
              /\ calls[p].pc \in {"idle", "update"})]_vars

\* moveCard(HIRED) on a card at TO_APPLY was refused: nothing published,
\* nothing archived, the card still at TO_APPLY.
C12_Witness ==
    \E p \in Procs :
       /\ calls[p].op = "MoveCard" /\ calls[p].pc = "done"
       /\ calls[p].res = "ValidationError"
       /\ calls[p].cur = StatusToApply /\ calls[p].new = StatusHired
       /\ applications[calls[p].app].current_status = StatusToApply
       /\ applications[calls[p].app].job_feed_id = Some(1)
       /\ events = <<>>
       /\ \A sc \in ConfigIds : search_configs[sc].is_active

\* C13: once the UPDATE of moveCard has committed, a failed archival and a
\* failed publish are logged only: the archival is always followed by the
\* publish, the call answers ok with the card, and the card's committed status
\* and history stay as the UPDATE left them.
C13_SideEffectFailuresNeverSurface ==
    [][\A p \in Procs :
          /\ (MoveCardStepFrom(p, "archive")
              => (/\ calls'[p].pc = "publish"
                  /\ ~calls'[p].dbErr
                  /\ applications' = applications))
          /\ (MoveCardStepFrom(p, "publish")
              => (/\ calls'[p].pc = "done"
                  /\ calls'[p].res = "ok"
                  /\ ~calls'[p].dbErr
                  /\ calls'[p].ret = calls[p].app
                  /\ applications' = applications
                  /\ applications[calls[p].app].history_log # <<>>
                  /\ ("publish" \notin calls'[p].warned
                      => (events' = Append(events, CardMoved(p))))
                  /\ ("publish" \in calls'[p].warned => (events' = events))))]_vars

\* Both the archival and the publish of a move to HIRED failed; the call
\* answered ok and the card is at HIRED with the move in its history.
C13_Witness ==
    \E p \in Procs :
       /\ calls[p].op = "MoveCard" /\ calls[p].pc = "done" /\ calls[p].res = "ok"
       /\ calls[p].warned = {"archive", "publish"}
       /\ applications[calls[p].app].current_status = StatusHired
       /\ applications[calls[p].app].history_log[
             Len(applications[calls[p].app].history_log)].to = StatusHired
       /\ \A sc \in ConfigIds : search_configs[sc].is_active

-----------------------------------------------------------------------------
(* Properties of ParseStatus and ContainsRedFlag                             *)

\* C14: ParseStatus accepts exactly the six tokens and returns the token it
\* was given; every other string (empty, lowercase, mixed case, padded with
\* white space, unknown) is an error.
C14_ParseStatusExact ==
    probe.fn = "ParseStatus"
    => IF probe.from \in {"TO_APPLY", "APPLIED", "INTERVIEW", "OFFER", "HIRED", "REJECTED"}
       THEN probe.out /\ probe.to = probe.from
       ELSE ~probe.out

\* A padded token was refused.
C14_Witness ==
    probe.fn = "ParseStatus" /\ probe.from = " HIRED " /\ ~probe.out

\* Case folding of one character and of a text, as the specification means it.
FoldChar(c) ==
    CASE c = "A" -> "a" [] c = "C" -> "c" [] c = "D" -> "d" [] c = "G" -> "g"
      [] c = "I" -> "i" [] c = "N" -> "n" [] c = "P" -> "p" [] c = "U" -> "u"
      [] c = "B" -> "b" [] c = "E" -> "e"
      [] OTHER -> c

\* flag occurs in text, letter case ignored
OccursIn(flag, text) ==
    \E i \in 1..(Len(text) - Len(flag) + 1) :
       \A j \in 1..Len(flag) : FoldChar(text[i + j - 1]) = FoldChar(flag[j])

\* C15 (as stated): ContainsRedFlag is true iff some flag of the list is a
\* case-insensitive substring of the concatenation of the three text fields.
C15_SubstringOfConcatenation ==
    probe.fn = "ContainsRedFlag"
    => (probe.out <=>
          \E k \in 1..Len(probe.redFlags) :
             \/ probe.redFlags[k] = <<>>
             \/ OccursIn(probe.redFlags[k],
                         probe.title \o probe.company \o probe.description))

\* C15 (amended): ContainsRedFlag is true iff some non-empty flag of the list is
\* a case-insensitive substring of title, company and description joined by
\* single spaces; with an empty flag list it is false for every text.
C15_NonEmptyFlagInJoinedText ==
    probe.fn = "ContainsRedFlag"
    => /\ (probe.out <=>
             \E k \in 1..Len(probe.redFlags) :
                /\ probe.redFlags[k] # <<>>
                /\ OccursIn(probe.redFlags[k],
                            probe.title \o <<" ">> \o probe.company \o <<" ">>
                               \o probe.description))
       /\ (probe.redFlags = <<>> => ~probe.out)

\* The flag "UNPAID" matched the description "Unpaid internship".
C15_Witness ==
    /\ probe.fn = "ContainsRedFlag"
    /\ probe.redFlags = <<FlagAbsent, FlagUnpaidUpper>>
    /\ probe.description = TextUnpaidInternship
    /\ probe.out

-----------------------------------------------------------------------------
(* Properties of one discovery cycle                                         *)

\* The listing the single worker is at, and the config it belongs to.
CurrentJob == workers["w1"].results[workers["w1"].ri]
CurrentConfig == workers["w1"].cfgs[workers["w1"].ci]

\* The counters of the current pair after the step: the worker's own while the
\* listing loop goes on, the ones scrapeAndInsert returned once it is over.
CountersAfter ==
    IF workers["w1"].ri < Len(workers["w1"].results)
    THEN [inserted |-> workers'["w1"].inserted, filtered |-> workers'["w1"].filtered,
          dupes |-> workers'["w1"].dupes]
    ELSE [inserted |-> attempts'[workers["w1"].ai].inserted,
          filtered |-> attempts'[workers["w1"].ai].filtered,
          dupes |-> attempts'[workers["w1"].ai].dupes]

CountersPlus(i, f, d) ==
    CountersAfter = [inserted |-> workers["w1"].inserted + i,
                     filtered |-> workers["w1"].filtered + f,
                     dupes |-> workers["w1"].dupes + d]

Flagged(job, cfg) ==
    \E k \in 1..Len(cfg.RedFlags) :
       /\ cfg.RedFlags[k] # <<>>
       /\ OccursIn(cfg.RedFlags[k],
                   job.Title \o <<" ">> \o job.Company \o <<" ">> \o job.Description)

StatementFailed == ingests' # ingests /\ ingests'[Len(ingests')].outcome = "error"

RowWith(key) == \E f \in 1..Len(job_feed) : job_feed[f].source_url = key

PairsReturned == {i \in 1..Len(attempts) : attempts[i].returned /\ ~attempts[i].err}

Counted(a) == a.inserted + a.filtered + a.dupes

\* C16 (as stated): for a pair whose fetch succeeded, the three counters add up
\* to the number of listings fetched.
C16_CountersSumToFetched ==
    \A i \in PairsReturned : Counted(attempts[i]) = attempts[i].fetched

\* C16 (amended): every listing of a fetched pair whose insert statement does
\* not fail is counted in exactly one counter: filtered when it matches a red
\* flag, otherwise inserted when no row with its source_url existed, otherwise
\* duplicate; a listing whose insert statement fails is counted in none, so the
\* counters add up to at most the number fetched, and to exactly that number
\* when no insert statement failed.
C16_EachStoredListingCountedOnce ==
    [][/\ (workers["w1"].pc = "process" /\ workers'["w1"] # workers["w1"]
           => (IF Flagged(CurrentJob, CurrentConfig)
               THEN CountersPlus(0, 1, 0) /\ job_feed' = job_feed /\ ingests' = ingests
               ELSE workers'["w1"].pc = "insert" /\ job_feed' = job_feed))
       /\ (workers["w1"].pc = "insert" /\ workers'["w1"] # workers["w1"]
           => (IF StatementFailed
               THEN CountersPlus(0, 0, 0) /\ job_feed' = job_feed
               ELSE IF RowWith(SourceKey(CurrentJob))
               THEN CountersPlus(0, 0, 1) /\ job_feed' = job_feed
               ELSE CountersPlus(1, 0, 0) /\ Len(job_feed') = Len(job_feed) + 1))
       /\ (\A i \in PairsReturned : Counted(attempts[i]) <= attempts[i].fetched)'
       /\ ((\A k \in 1..Len(ingests) : ingests[k].outcome # "error")
           => (C16_CountersSumToFetched))']_vars

\* Two new listings were fetched, one of them flagged: 1 inserted, 1 filtered,
\* 0 duplicates.
C16_Witness ==
    \E i \in PairsReturned :
       /\ attempts[i].fetched = 2
       /\ attempts[i].inserted = 1
       /\ attempts[i].filtered = 1
       /\ attempts[i].dupes = 0

\* C17: with the application id or the application key absent, every Fetch
\* issues no request and returns an empty result without error, and the cycle
\* inserts no feed row and records no pair failure.
C17_NoCredentialsNoOp ==
    (fetcher.AppID = "" \/ fetcher.AppKey = "")
    => (/\ job_feed = <<>>
        /\ ingests = <<>>
        /\ \A i \in 1..Len(attempts) :
              /\ attempts[i].pages = 0
              /\ ~attempts[i].err
              /\ attempts[i].fetched = 0
              /\ attempts[i].returned
              /\ Counted(attempts[i]) = 0)

\* A cycle without the application key went through two pairs and ended.
C17_Witness ==
    /\ fetcher.AppID # ""
    /\ fetcher.AppKey = ""
    /\ Len(attempts) >= 2
    /\ workers["w1"].pc = "done"

\* The answer to page k was a full page.
FullPage(script, k) ==
    /\ k <= Len(script)
    /\ ~script[k].err
    /\ Len(script[k].batch) = 50

\* C18: Fetch requests pages 1, 2, ... in order and never more than 3; page
\* k+1 is requested only when page k was full (50 listings); the loop is over
\* after the first page that is not full; at most 150 listings are returned.
C18_PagingBounded ==
    probe.fn = "Fetch"
    => (/\ \A k \in 1..Len(probe.requested) : probe.requested[k] = k
        /\ Len(probe.requested) <= 3
        /\ \A k \in 2..Len(probe.requested) : FullPage(probe.script, k - 1)
        /\ (probe.pc = "loop"
            => (\A k \in 1..Len(probe.requested) : FullPage(probe.script, k)))
        /\ Len(probe.results) <= 150
        /\ (probe.pc = "done"
            => (/\ Fetch(probe.f, probe.script).pages = Len(probe.requested)
                /\ Fetch(probe.f, probe.script).results = probe.results
                /\ Fetch(probe.f, probe.script).err = probe.err)))

\* Four full pages were on offer: three were requested, 150 listings returned.
C18_Witness ==
    /\ probe.fn = "Fetch"
    /\ probe.pc = "done"
    /\ Len(probe.script) = 4
    /\ FullPage(probe.script, 4)
    /\ probe.requested = <<1, 2, 3>>
    /\ Len(probe.results) = 150

-----------------------------------------------------------------------------
(* Properties of the annotations of a card                                   *)

\* The row (id, user_id) is in the table.
RowOf(app, user) == app <= Len(applications) /\ applications[app].user_id = user

StoredRatingsInRange ==
    \A a \in 1..Len(applications) :
       \/ applications[a].user_rating = <<>>
       \/ \E r \in 1..5 : applications[a].user_rating = <<r>>

\* C19: RateApplication with a rating outside 1..5 ends in ValidationError
\* without a statement having been sent and changes nothing; the stored rating
\* of every application is absent or in 1..5.
C19_RatingValidatedFirst ==
    [][/\ (\A p \in Procs, u \in Users, a \in 1..MaxApps, fail \in BOOLEAN :
           \A rating \in {r \in Ratings : r < 1 \/ r > 5} :
              (RateApplication(p, u, a, rating, fail)
               => (/\ calls'[p].pc = "done"
                   /\ calls'[p].res = "ValidationError"
                   /\ ~calls'[p].dbErr
                   /\ applications' = applications
                   /\ now' = now)))
       /\ (StoredRatingsInRange)']_vars

\* A rating of 5 is stored and a later out-of-range rating by the owner was
\* refused.
C19_Witness ==
    \E p \in Procs :
       /\ calls[p].op = "RateApplication"
       /\ calls[p].res = "ValidationError"
       /\ calls[p].user = "u1"
       /\ calls[p].app = 1
       /\ applications[1].user_rating = <<5>>

\* C20: AddNote on a row of the caller, the statement executing, sets the note
\* whatever the status and leaves every other column but updated_at as it was;
\* on a row that is absent or of another user it ends in NotFound and changes
\* nothing.
C20_NoteReplacedNothingElse ==
    [][\A p \in Procs, u \in Users, a \in 1..MaxApps, note \in Notes :
          (AddNote(p, u, a, note, FALSE)
           => (IF RowOf(a, u)
               THEN /\ calls'[p].res = "ok"
                    /\ calls'[p].ret = a
                    /\ applications'[a].user_notes = <<note>>
                    /\ applications' =
                          [applications EXCEPT ![a] =
                             [@ EXCEPT !.user_notes = <<note>>,
                                       !.updated_at = applications'[a].updated_at]]
               ELSE /\ calls'[p].res = "NotFound"
                    /\ applications' = applications))]_vars

\* The note of a rated HIRED card was replaced.
C20_Witness ==
    \E p \in Procs :
       /\ calls[p].op = "AddNote"
       /\ calls[p].res = "ok"
       /\ applications[1].current_status = "HIRED"
       /\ applications[1].user_notes = <<"n2">>
       /\ applications[1].user_rating = <<1>>
       /\ applications[1].updated_at = 3

-----------------------------------------------------------------------------
(* Properties of triage and of the creation of applications                  *)

\* C21: a feed item that has become APPROVED or REJECTED never takes another
\* status under approveJob and rejectJob.
C21_TriageDecisionFinal ==
    [][\A f \in 1..Len(job_feed) :
          (job_feed[f].status \in {"APPROVED", "REJECTED"}
           => (job_feed'[f].status = job_feed[f].status))]_vars

\* C22: every application enters the table in status TO_APPLY with an empty
\* history log, whichever of the three creating operations inserts it.
C22_CreatedAtToApply ==
    [][\A a \in 1..Len(applications') :
          (a > Len(applications)
           => (/\ applications'[a].current_status = "TO_APPLY"
               /\ applications'[a].history_log = <<>>))]_vars

-----------------------------------------------------------------------------
(* Properties of the scheduler                                               *)

\* C23: the fetcher is called for a pair of a config only while that config's
\* active flag is true, also when the flag is cleared during a running cycle.
C23_FetchOnlyWhileActive ==
    [][Len(attempts') > Len(attempts)
       => (search_configs[attempts'[Len(attempts')].config].is_active)]_vars

\* C24: a request that is in flight when the shutdown begins ends by its own
\* response or its own timeout, never by the shutdown.
C24_ShutdownSparesInFlightFetch ==
    [][(/\ probe.fn = "main"
        /\ probe.request = "inflight"
        /\ probe.sentUnder = "live"
        /\ probe'.request = "none")
       => (probe'.ended[Len(probe'.ended)] \in {"response", "timeout"})]_vars

-----------------------------------------------------------------------------
(* Properties of the status and the history of an application                *)

\* C25: an application whose current_status differs from TO_APPLY never gets
\* TO_APPLY again, whatever MoveCard calls run and however they interleave.
C25_ToApplyNeverReentered ==
    [][\A a \in 1..Len(applications) :
          (applications[a].current_status # "TO_APPLY"
           => (applications'[a].current_status # "TO_APPLY"))]_vars

\* A MoveCard to TO_APPLY on a card that had left TO_APPLY was refused.
C25_Witness ==
    \E p \in Procs :
       /\ calls[p].op = "MoveCard"
       /\ calls[p].pc = "done"
       /\ calls[p].new = "TO_APPLY"
       /\ calls[p].res = "ValidationError"
       /\ applications[calls[p].app].current_status = "APPLIED"
       /\ applications[calls[p].app].history_log # <<>>

-----------------------------------------------------------------------------
(* Properties of the SSE registry                                            *)

\* The responses handed to add for user u so far.
AddedFor(u) == {i \in 1..Len(probe.responses) : probe.responses[i].user = u}

\* C26: add(user, res) registers res for the user, writes the "connected"
\* event to res exactly once, ends the response the user had registered and
\* leaves the entries and responses of other users as they were; the registry
\* maps a user to the response of that user's latest add.
C26_OneConnectionPerUser ==
    [][\A u \in Users :
          (SSEAdd(u)
           => (/\ probe'.connections[u] = Len(probe'.responses)
               /\ Len(probe'.responses) = Len(probe.responses) + 1
               /\ probe'.responses[Len(probe'.responses)].written =
                     << <<"data: ", [type |-> "connected", userId |-> u], "\n\n">> >>
               /\ ~probe'.responses[Len(probe'.responses)].ended
               /\ (probe.connections[u] # 0
                   => (probe'.responses[probe.connections[u]].ended))
               /\ (\A v \in Users \ {u} : probe'.connections[v] = probe.connections[v])
               /\ (\A i \in 1..Len(probe.responses) :
                      /\ probe'.responses[i].written = probe.responses[i].written
                      /\ (i # probe.connections[u]
                          => (probe'.responses[i] = probe.responses[i])))
               /\ (\A i \in AddedFor(u)' : i <= probe'.connections[u])))]_vars

\* A user connected twice: the first response was ended, the second one is
\* registered, and the other user's response is still open.
C26_Witness ==
    /\ probe.fn = "SSEManager"
    /\ Len(probe.responses) = 3
    /\ probe.responses[1].user = "u1"
    /\ probe.responses[1].ended
    /\ probe.connections["u1"] = 3
    /\ probe.connections["u2"] = 2
    /\ ~probe.responses[2].ended

\* C27: send(user, payload) writes one data frame to the response registered
\* for the user and nothing to any other response; without a registered
\* response it writes nothing; remove of a user without one changes nothing.
C27_SendReachesOnlyItsUser ==
    [][\A u \in Users :
          /\ (\A payload \in SsePayloads :
                (SSESend(u, payload)
                 => (/\ probe'.connections = probe.connections
                     /\ Len(probe'.responses) = Len(probe.responses)
                     /\ (\A i \in 1..Len(probe.responses) :
                           IF i = probe.connections[u]
                           THEN probe'.responses[i] =
                                   [probe.responses[i] EXCEPT !.written =
                                       Append(@, <<"data: ", payload, "\n\n">>)]
                           ELSE probe'.responses[i] = probe.responses[i]))))
          /\ (SSERemove(u) /\ probe.connections[u] = 0
              => (/\ probe'.connections = probe.connections
                  /\ probe'.responses = probe.responses))]_vars

\* An event was sent to u1 while u2 was connected too: u1's response holds the
\* handshake and the event, u2's only the handshake.
C27_Witness ==
    /\ probe.fn = "SSEManager"
    /\ probe.connections["u1"] # 0
    /\ probe.connections["u2"] # 0
    /\ Len(probe.responses[probe.connections["u1"]].written) = 2
    /\ Len(probe.responses[probe.connections["u2"]].written) = 1

\* C28: the history of every application is a chain: its first record starts
\* at the status the application was created with, every later record starts
\* where the record before it ended, and current_status is where the last
\* record ended (the creation status while the history is empty).
C28_HistoryIsAChain ==
    [][\A a \in 1..Len(applications') :
          /\ (\A i \in 2..Len(applications'[a].history_log) :
                 applications'[a].history_log[i].from =
                    applications'[a].history_log[i - 1].to)
          /\ (applications'[a].history_log # <<>>
              => (applications'[a].current_status =
                     applications'[a].history_log[Len(applications'[a].history_log)].to))
          /\ (a <= Len(applications) /\ applications[a].history_log = <<>>
              => (IF applications'[a].history_log = <<>>
                  THEN applications'[a].current_status = applications[a].current_status
                  ELSE applications'[a].history_log[1].from =
                          applications[a].current_status))]_vars

\* h is an initial part of g
IsPrefix(h, g) == Len(h) <= Len(g) /\ SubSeq(g, 1, Len(h)) = h

\* C29: the history log of an application only grows at its end: every step
\* keeps the records it holds, in place, and a step adds a record only as the
\* UPDATE of a MoveCard call that passed validation, one record per UPDATE,
\* and that call then returns the card without error.
C29_HistoryAppendOnly ==
    [][/\ (\A a \in 1..Len(applications) :
             /\ a <= Len(applications')
             /\ IsPrefix(applications[a].history_log, applications'[a].history_log)
             /\ (applications'[a].history_log # applications[a].history_log
                 => (/\ Len(applications'[a].history_log) =
                           Len(applications[a].history_log) + 1
                     /\ \E p \in Procs :
                           /\ calls[p].op = "MoveCard"
                           /\ calls[p].pc = "update"
                           /\ calls[p].app = a
                           /\ calls'[p].pc \in {"archive", "publish"})))
       /\ (\A p \in Procs :
             (calls[p].op = "MoveCard" /\ calls[p].pc \in {"archive", "publish"}
              => (\/ calls'[p] = calls[p]
                  \/ calls'[p].pc = "publish"
                  \/ (calls'[p].pc = "done" /\ calls'[p].res = "ok"))))]_vars

\* A card with two history records got a note and a rating and kept both
\* records.
C29_Witness ==
    /\ Len(applications[1].history_log) = 2
    /\ applications[1].history_log[2].at = 0
    /\ applications[1].user_notes # <<>>
    /\ applications[1].user_rating # <<>>

\* The history records of application a that go from `from` to `to`.
RecordsOf(a, from, to) ==
    {k \in 1..Len(applications[a].history_log) :
        /\ applications[a].history_log[k].from = from
        /\ applications[a].history_log[k].to = to}

\* Every published event has its own stored history record.
EventsFollowHistory ==
    \A i \in 1..Len(events) :
       /\ events[i].applicationId \in 1..Len(applications)
       /\ events[i].userId = applications[events[i].applicationId].user_id
       /\ Cardinality({j \in 1..Len(events) : events[j] = events[i]})
             <= Cardinality(RecordsOf(events[i].applicationId,
                                      events[i].from, events[i].to))

\* C30: an event is published, and a SearchConfig deactivated, only by a
\* MoveCard call whose UPDATE has committed; every published event has a
\* stored history record of its application with the same from and to; a
\* call publishes at most one event.
C30_SideEffectsFollowCommit ==
    [][/\ (events' # events
           => (\E p \in Procs :
                  /\ MoveCardStepFrom(p, "publish")
                  /\ RecordsOf(calls[p].app, calls[p].cur, calls[p].new) # {}
                  /\ Len(events') = Len(events) + 1
                  /\ SubSeq(events', 1, Len(events)) = events
                  /\ events'[Len(events')].applicationId = calls[p].app
                  /\ events'[Len(events')].from = calls[p].cur
                  /\ events'[Len(events')].to = calls[p].new))
       /\ (search_configs' # search_configs
           => (\E p \in Procs :
                  /\ MoveCardStepFrom(p, "archive")
                  /\ calls[p].new = "HIRED"
                  /\ RecordsOf(calls[p].app, calls[p].cur, "HIRED") # {}))
       /\ (EventsFollowHistory)']_vars

\* Two moves of one card were published, each after its record was stored.
C30_Witness ==
    /\ Len(events) = 2
    /\ events[1].applicationId = events[2].applicationId
    /\ events[1].to = events[2].from
    /\ Len(applications[events[1].applicationId].history_log) = 2


-----------------------------------------------------------------------------
(* Properties of isolation between users.                                    *)

\* C31: the archival step of a MoveCard call made by user U deactivates only
\* a SearchConfig owned by U.
C31_NoCrossUserArchival ==
    [][\A p \in Procs :
          (MoveCardStepFrom(p, "archive")
           => (\A sc \in ConfigIds :
                  (search_configs'[sc].is_active # search_configs[sc].is_active
                   => (search_configs[sc].user_id = calls[p].user))))]_vars

\* Application a exists and belongs to another user than u.
Foreign(a, u) == a \in AppIds /\ applications[a].user_id # u

OwnerScopedOps == {"MoveCard", "AddNote", "RateApplication", "SetRelanceReminder"}

\* The call that connection p starts in this step is made on an application
\* of another user.
StartsForeignCall(p) ==
    /\ calls[p].pc = "idle"
    /\ calls'[p].op \in OwnerScopedOps
    /\ Foreign(calls'[p].app, calls'[p].user)

\* C32 as stated: MoveCard, AddNote, RateApplication and SetRelanceReminder
\* called on an application of another user return NotFound, change no
\* application and publish no event.
C32_ForeignCallNotFound ==
    [][\A p \in Procs :
          (StartsForeignCall(p)
           => (/\ calls'[p].pc = "done"
               /\ calls'[p].res = "NotFound"
               /\ applications' = applications
               /\ events' = events))]_vars

\* C32: a call of the four operations on an application of another user ends
\* at once, changes no application and publishes no event; it returns
\* NotFound, except that MoveCard with a string that is no status and
\* RateApplication with a rating outside 1..5 return ValidationError; every
\* change of an application is made by a call of its owner.
C32_ForeignCallChangesNothing ==
    [][/\ (\A p \in Procs :
              (StartsForeignCall(p)
               => (/\ calls'[p].pc = "done"
                   /\ calls'[p].res \in {"NotFound", "ValidationError"}
                   /\ applications' = applications
                   /\ events' = events
                   /\ search_configs' = search_configs)))
       /\ (\A p \in Procs, u \in Users, a \in AppIds, fail \in BOOLEAN :
              (Foreign(a, u)
               => (/\ (\A raw \in RawStatuses :
                          (MoveCardSelect(p, u, a, raw, fail)
                           => (calls'[p].res = IF ParseStatus(raw).err
                                               THEN "ValidationError"
                                               ELSE "NotFound")))
                   /\ (\A note \in Notes :
                          (AddNote(p, u, a, note, fail)
                           => (calls'[p].res = "NotFound")))
                   /\ (\A rating \in Ratings :
                          (RateApplication(p, u, a, rating, fail)
                           => (calls'[p].res = IF rating < RatingMin \/ rating > RatingMax
                                               THEN "ValidationError"
                                               ELSE "NotFound")))
                   /\ (\A remindAt \in RemindAts :
                          (SetRelanceReminder(p, u, a, remindAt, fail)
                           => (calls'[p].res = "NotFound"))))))
       /\ (\A a \in AppIds :
              (applications'[a] # applications[a]
               => (\E p \in Procs :
                      /\ calls'[p].app = a
                      /\ calls'[p].user = applications[a].user_id
                      /\ applications'[a].user_id = applications[a].user_id)))]_vars

\* The other user's MoveCard to a well-formed status on this card was answered
\* NotFound, after the owner had written a note on it.
C32_Witness ==
    /\ calls["p1"].op = "MoveCard" /\ calls["p1"].pc = "done"
    /\ calls["p1"].user = "u2" /\ calls["p1"].app = 1
    /\ calls["p1"].new = StatusApplied
    /\ ~calls["p1"].dbErr
    /\ calls["p1"].res = "NotFound"
    /\ applications[1].user_id = "u1"
    /\ applications[1].user_notes # NULL

-----------------------------------------------------------------------------
(* Properties of the errors of the tracker service.                          *)

\* C33: a MoveCard, AddNote or RateApplication call ends with NotFound only
\* when the caller owns no application with the given id (a failed statement
\* on an owned application is no NotFound), and a call on a missing or
\* foreign application that passes validation ends with NotFound.
C33_NotFoundMeansMissingOrForeign ==
    [][\A p \in Procs :
          (/\ calls[p].pc # "done"
           /\ calls'[p].pc = "done"
           /\ calls'[p].op \in {"MoveCard", "AddNote", "RateApplication"}
           => (/\ (calls'[p].res = "NotFound"
                   => (~Owned(calls'[p].app, calls'[p].user)))
               /\ (~Owned(calls'[p].app, calls'[p].user)
                   => (calls'[p].res \in {"NotFound", "ValidationError"}))))]_vars

-----------------------------------------------------------------------------
(* Properties of a failing fetch.                                            *)

\* The upstream API answers with an error a page that the loop of Fetch
\* requests: every page before it is full and it lies within the page cap.
FailsOnReachedPage(script) ==
    \E k \in 1..Len(script) :
       /\ k <= adzunaMaxPages
       /\ script[k].err
       /\ \A j \in 1..(k - 1) : FullPage(script, j)

\* The listings of the pages of a failing script.
ListingsOfFailedFetches ==
    UNION {UNION {{script[k].batch[j] : j \in 1..Len(script[k].batch)} :
                     k \in 1..Len(script)} :
              script \in {s \in PageFailScripts : FailsOnReachedPage(s)}}

\* No failed pair has counted a listing, and every processed listing belongs
\* to a pair whose fetch succeeded.
FailedPairsIngestNothing ==
    /\ (\A a \in 1..Len(attempts) :
           (attempts[a].err
            => (/\ attempts[a].fetched = 0
                /\ attempts[a].inserted = 0
                /\ attempts[a].filtered = 0
                /\ attempts[a].dupes = 0
                /\ attempts[a].returned)))
    /\ (\A i \in 1..Len(ingests) :
           /\ ingests[i].job \notin ListingsOfFailedFetches
           /\ \E a \in 1..Len(attempts) :
                 /\ attempts[a].config = ingests[i].config
                 /\ ~attempts[a].err)
    /\ Len(job_feed) = Cardinality({i \in 1..Len(ingests) : ingests[i].outcome = "inserted"})

\* C34: Fetch returns an error exactly when a page it requests fails, also
\* after full pages that succeeded; scrapeAndInsert then returns at once:
\* no listing of the pair is processed, inserted or counted, and the worker
\* goes on to the next pair.
C34_FailedFetchIngestsNothing ==
    [][/\ (\A script \in PageFailScripts :
              (FetchPair("w1", script)
               => (/\ (Fetch(fetcher, script).err <=> FailsOnReachedPage(script))
                   /\ (FailsOnReachedPage(script)
                       => (/\ job_feed' = job_feed
                           /\ ingests' = ingests
                           /\ workers'["w1"].pc \in {"pair", "done"}
                           /\ workers'["w1"].results = <<>>
                           /\ workers'["w1"].inserted = 0
                           /\ attempts'[Len(attempts')].err)))))
       /\ (FailedPairsIngestNothing)']_vars

\* The cycle is over: the fetch of one pair failed on page 2, after a full
\* page, and the other pair stored its listing.
C34_Witness ==
    /\ workers["w1"].pc = "done"
    /\ Len(job_feed) = 1
    /\ \E a \in 1..Len(attempts) :
          /\ attempts[a].err
          /\ attempts[a].pages = 2
          /\ attempts[a].inserted = 0
    /\ \E a \in 1..Len(attempts) :
          /\ ~attempts[a].err
          /\ attempts[a].inserted = 1

-----------------------------------------------------------------------------
(* Properties of the rows a discovery cycle stores.                          *)

\* The listing and the config worker w is processing.
JobOf(w) == workers[w].results[workers[w].ri]
ConfigOf(w) == workers[w].cfgs[workers[w].ci]

\* The listing of a feed row is not flagged under the list redFlags.
PassesFilter(row, redFlags) ==
    ~ContainsRedFlag(row.raw_data.Title, row.raw_data.Company,
                     row.raw_data.Description, redFlags)

\* C35: every row a cycle writes to job_feed is PENDING, belongs to the
\* config the worker is processing and holds a listing for which
\* ContainsRedFlag is false under that config's red flags; a listing that
\* matches a red flag is counted as filtered and never reaches the INSERT.
C35_FlaggedListingsNeverStored ==
    [][/\ (\A w \in Workers :
              (workers[w].pc = "process" /\ workers'[w] # workers[w]
               => (/\ job_feed' = job_feed
                   /\ ((workers'[w].pc = "insert")
                          <=> ~ContainsRedFlag(JobOf(w).Title, JobOf(w).Company,
                                               JobOf(w).Description,
                                               ConfigOf(w).RedFlags)))))
       /\ (job_feed' # job_feed
           => (\E w \in Workers :
                  /\ workers[w].pc = "insert"
                  /\ workers'[w] # workers[w]
                  /\ job_feed' = Append(job_feed, job_feed'[Len(job_feed')])
                  /\ job_feed'[Len(job_feed')].status = "PENDING"
                  /\ job_feed'[Len(job_feed')].search_config_id = ConfigOf(w).ID
                  /\ job_feed'[Len(job_feed')].raw_data = JobOf(w)
                  /\ PassesFilter(job_feed'[Len(job_feed')], ConfigOf(w).RedFlags)))
       /\ (\A f \in 1..Len(job_feed') :
              /\ job_feed'[f].status = "PENDING"
              /\ PassesFilter(job_feed'[f],
                              search_configs'[job_feed'[f].search_config_id].red_flags))]_vars

\* The listing that matches the red flag of the first search was filtered
\* for it and stored for the second search, which has no red flag.
C35_Witness ==
    /\ \E f \in 1..Len(job_feed) :
          /\ job_feed[f].raw_data = JobUnpaid
          /\ job_feed[f].search_config_id = 2
          /\ job_feed[f].status = "PENDING"
    /\ \E a \in 1..Len(attempts) :
          /\ attempts[a].config = 1
          /\ attempts[a].filtered = 1

-----------------------------------------------------------------------------
(* Properties of the active flag of a saved search.                          *)

\* C36: a saved search whose is_active is false stays inactive: no step of
\* MoveCard, createApplication, approveJob, rejectJob, an edit or a soft
\* delete of a saved search, or the discovery cycle sets it to true again,
\* and the flag only changes by the archival of a MoveCard to HIRED or by a
\* soft delete made by the owner.
C36_DeactivationIsPermanent ==
    [][\A sc \in ConfigIds :
          /\ (~search_configs[sc].is_active => (~search_configs'[sc].is_active))
          /\ (search_configs'[sc].is_active # search_configs[sc].is_active
              => (\E p \in Procs :
                     \/ MoveCardStepFrom(p, "archive")
                     \/ /\ calls'[p].op = "deleteSearchConfig"
                        /\ calls'[p].res = "ok"
                        /\ calls'[p].app = sc
                        /\ calls'[p].user = search_configs[sc].user_id))]_vars

\* The first search was archived by the move to HIRED, the second one was
\* soft-deleted by its owner, and an edit of it was then answered ok.
C36_Witness ==
    /\ ~search_configs[1].is_active
    /\ ~search_configs[2].is_active
    /\ applications[1].current_status = StatusHired
    /\ search_configs[2].red_flags = <<FlagUnpaid>>
    /\ calls["p1"].op = "updateSearchConfig"
    /\ calls["p1"].res = "ok"
    /\ calls["p1"].app = 2
    /\ workers["w1"].pc = "done"

-----------------------------------------------------------------------------
(* Properties of the /events route.                                          *)

\* C37: a response that was not replaced and whose request has not closed is
\* the one registered for its user, so a frame sent to the user is written
\* to it.
C37_LiveConnectionStaysRegistered ==
    [][/\ probe'.fn = "SSEManager"
       => (/\ (\A i \in 1..Len(probe'.responses) :
                  (~probe'.responses[i].ended /\ i \notin probe'.closed
                   => (probe'.connections[probe'.responses[i].user] = i)))
           /\ (\A u \in Users, payload \in SsePayloads :
                  (SSESend(u, payload)
                   => (\A i \in 1..Len(probe.responses) :
                          (/\ probe.responses[i].user = u
                           /\ ~probe.responses[i].ended
                           /\ i \notin probe.closed
                           => (probe'.responses[i].written
                                  = Append(probe.responses[i].written,
                                           Frame(payload))))))))]_vars

-----------------------------------------------------------------------------
(* Properties of manual applications.                                        *)

\* The applications of user u that have no job feed id.
ManualApplications(u) ==
    {a \in AppIds : applications[a].user_id = u /\ applications[a].job_feed_id = NULL}

\* C38: a user has at most one application without a job feed id, and a
\* createApplication call without jobFeedId by a user who has one inserts no
\* row and returns the existing one.
C38_OneManualApplicationPerUser ==
    [][/\ (\A u \in Users : Cardinality(ManualApplications(u)') <= 1)
       /\ (\A p \in Procs, u \in Users, fail \in BOOLEAN :
              (createApplication(p, u, NULL, fail) /\ ManualApplications(u) # {} /\ ~fail
               => (/\ Len(applications') = Len(applications)
                   /\ calls'[p].ret \in ManualApplications(u))))]_vars

-----------------------------------------------------------------------------
(* Termination of the discovery cycle.                                       *)

\* The number of (title, location) pairs of the configs cfgs.
RECURSIVE PairsOf(_)
PairsOf(cfgs) ==
    IF cfgs = <<>> THEN 0
    ELSE Len(Head(cfgs).JobTitles) * Len(Head(cfgs).Locations) + PairsOf(Tail(cfgs))

\* The page requests worker w has issued so far.
RECURSIVE PagesFrom(_, _)
PagesFrom(w, a) ==
    IF a > Len(attempts) THEN 0
    ELSE (IF attempts[a].worker = w THEN attempts[a].pages ELSE 0) + PagesFrom(w, a + 1)

\* A cycle issues at most pairs x adzunaMaxPages page requests, none when
\* loading the configs failed.
PageRequestsBounded ==
    \A w \in Workers :
       /\ PagesFrom(w, 1) <= PairsOf(workers[w].cfgs) * adzunaMaxPages
       /\ (workers[w].loadErr
           => (/\ workers[w].pc = "done"
               /\ PagesFrom(w, 1) = 0))

\* C39: a started cycle reaches its end, after at most pairs x adzunaMaxPages
\* page requests, also when every fetch fails; a cycle whose LoadActiveConfigs
\* fails ends in that step without a fetch, and the cycle of the next tick
\* can still start and ends as well.
C39_EveryCycleTerminates ==
    /\ [](PageRequestsBounded)
    /\ [][\A w \in Workers :
             (workers[w].pc = "idle" /\ workers'[w].loadErr
              => (workers'[w].pc = "done" /\ attempts' = attempts))]_vars
    /\ [](workers["w1"].pc = "done" /\ workers["w2"].pc = "idle"
          => (ENABLED runScrape("w2", FALSE)))
    /\ \A w \in Workers : (workers[w].pc # "idle") ~> (workers[w].pc = "done")

\* The start-up cycle ended on the failure of LoadActiveConfigs; the cycle of
\* the next tick ran to its end although the fetch of each of its two pairs
\* failed on the third page.
C39_Witness ==
    /\ workers["w1"].pc = "done" /\ workers["w1"].loadErr
    /\ workers["w2"].pc = "done" /\ ~workers["w2"].loadErr
    /\ Len(attempts) = 2
    /\ \A a \in 1..Len(attempts) :
          /\ attempts[a].worker = "w2"
          /\ attempts[a].err
          /\ attempts[a].pages = adzunaMaxPages

=============================================================================
